---- MODULE Spec2Model ----
(***************************************************************************)
(* The core of DIACC-PCTF.  The Trust Registry engine                      *)
(* (TrustRegistryProvider): entry lifecycle, trust-score computation,      *)
(* verification decision logic and the maintenance sweep, as a state       *)
(* machine over the provider's two maps, its process status and the wall   *)
(* clock.  The orchestrator (PCTFFramework): the participant directory,    *)
(* the dispatch to the six provider maps and the conformance assessment.   *)
(***************************************************************************)
EXTENDS Integers, Sequences, FiniteSets, TLC

(***************************************************************************)
(* Dates.  A JavaScript Date is a count of milliseconds; 366 days of       *)
(* milliseconds do not fit TLC's integers, so a date t is kept as the pair *)
(* day = t.getTime() div MsPerDay, ms = t.getTime() mod MsPerDay.          *)
(* An optional date (expirationDate?) is <<>> when absent and <<t>> when   *)
(* present; a missing string is "" (falsy in the source as well).          *)
(***************************************************************************)
MsPerDay == 1000 * 60 * 60 * 24

Date(d, m) == [day |-> d, ms |-> m]

\* a < b on Dates
Before(a, b) == a.day < b.day \/ (a.day = b.day /\ a.ms < b.ms)

\* a > b on Dates
After(a, b) == Before(b, a)

\* new Date(t.getTime() + k), 0 <= k
PlusMs(t, k) ==
    LET s == t.ms + k
    IN  [day |-> t.day + (s \div MsPerDay), ms |-> s % MsPerDay]

\* Math.floor((n.getTime() - t.getTime()) / (1000 * 60 * 60 * 24))
DaysSince(t, n) == (n.day - t.day) - (IF n.ms < t.ms THEN 1 ELSE 0)

Min(a, b) == IF a < b THEN a ELSE b
Max(a, b) == IF a > b THEN a ELSE b

(***************************************************************************)
(* Bounds of the model.                                                    *)
(***************************************************************************)
\* how many times the clock advances (by TickStep each time)
MaxTick == 1
\* how many verifications a run holds in its histories
MaxHistory == 1
\* how many calls are under way (suspended or returned and not yet taken)
MaxCalls == 2

(***************************************************************************)
(* The instants the inputs are drawn from.  The clock starts at Start and  *)
(* advances half a day at a time, so whole-day floors are exercised.       *)
(***************************************************************************)
Start == Date(20000, 0)
TickStep == MsPerDay \div 2
\* expires within the first clock step
Soon == PlusMs(Start, 1000 * 60 * 60)
Past == Date(Start.day - 1, 0)
\* 365.5 days before Start: 365 whole days at Start, 366 one step later
RegOld == Date(Start.day - 366, TickStep)
RegRecent == Date(Start.day - 10, 0)
\* 90.5 days before Start: 90 whole days at Start, 91 one step later
VerStale == Date(Start.day - 91, TickStep)
VerFresh == Past

TicksOf(t) == (t.day - Start.day) * 2 + (t.ms \div TickStep)

TrustStatus == {"TRUSTED", "PROVISIONAL", "SUSPENDED", "REVOKED", "UNKNOWN"}
AssuranceLevel == {"LOA1", "LOA2", "LOA3", "LOA4"}
Ids == {"p1", "p2"}

(***************************************************************************)
(* Certifications and submitted entries.                                   *)
(***************************************************************************)
Cert(id, auth, exp, st) ==
    [certificationId |-> id, issuingAuthority |-> auth,
     expirationDate |-> exp, status |-> st]

certActive == Cert("CERT-001", "DIACC", <<>>, "ACTIVE")
certSoon == Cert("CERT-002", "DIACC", <<Soon>>, "ACTIVE")
certSuspended == Cert("CERT-003", "DIACC", <<>>, "SUSPENDED")
certNoId == Cert("", "DIACC", <<>>, "ACTIVE")
certPast == Cert("CERT-005", "DIACC", <<Past>>, "ACTIVE")
certNoAuthPast == Cert("CERT-006", "", <<Past>>, "ACTIVE")

Entry(id, nm, st, loa, certs, reg, ver, exp, score) ==
    [participantId |-> id, name |-> nm, type |-> "VERIFIER", status |-> st,
     assuranceLevel |-> loa, certifications |-> certs,
     registrationDate |-> reg, lastVerified |-> ver, expirationDate |-> exp,
     trustScore |-> score, contactInformation |-> "trust@demo.org"]

\* the entries callers submit to registerParticipant: for the first
\* participant two entries that register and two that do not, for the
\* second a plain entry and one that is expired when it is submitted
p1Certified ==
    Entry("p1", "Demo", "TRUSTED", "LOA4", <<certActive, certSoon>>,
          RegOld, VerFresh, <<>>, 150)
p1Expiring ==
    Entry("p1", "Demo", "TRUSTED", "LOA2", <<certSuspended>>,
          RegRecent, VerStale, <<Soon>>, 0 - 5)
p1BadCertifications ==
    Entry("p1", "Demo", "TRUSTED", "LOA4",
          <<certNoId, certActive, certNoAuthPast, certPast>>,
          RegRecent, VerFresh, <<>>, 85)
p1Unnamed ==
    Entry("p1", "", "TRUSTED", "LOA2", <<certPast>>,
          RegRecent, VerFresh, <<>>, 85)
p2Provisional ==
    Entry("p2", "Demo", "PROVISIONAL", "LOA1", <<certActive>>,
          RegOld, VerStale, <<>>, 85)
p2Expired ==
    Entry("p2", "Demo", "UNKNOWN", "LOA3", <<>>,
          RegRecent, VerFresh, <<Past>>, 150)
noId ==
    Entry("", "Demo", "TRUSTED", "LOA2", <<certActive>>,
          RegRecent, VerFresh, <<>>, 85)

Submissions ==
    {p1Certified, p1Expiring, p1BadCertifications, p1Unnamed,
     p2Provisional, p2Expired, noId}

\* the status changes administrators ask for
StatusRequests == {"p1"} \X TrustStatus

\* fewer inputs, for the runs that follow longer verification histories
HistorySubmissions == {p1Expiring, p2Provisional}
HistoryRequests == {<<"p1", "SUSPENDED">>, <<"p1", "TRUSTED">>}

\* the entries the verification procedure is applied to: every status with
\* scores on both sides of its two thresholds and certifications that are
\* active, not active, expiring at the instant of the call, and absent.
\* (A stored entry is the object the caller submitted, which the caller can
\* still write to, so the store can hold any of them.)
certAtStart == Cert("CERT-004", "DIACC", <<Start>>, "ACTIVE")

VerifiedEntries ==
    { Entry("p1", "Demo", st, "LOA2", certs, RegRecent, VerFresh, <<>>, score) :
        st \in TrustStatus,
        certs \in {<<>>, <<certActive>>, <<certSuspended>>, <<certAtStart>>,
                   <<certSuspended, certSoon>>},
        score \in {0, 49, 50, 69, 70, 100} }

\* the entries the scoring function is applied to: every status and
\* assurance level, none to five ACTIVE certifications with and without
\* ones that do not count, registration and last verification on both
\* sides of their thresholds, and two submitted scores
fiveActive ==
    <<certActive,
      Cert("CERT-007", "DIACC", <<>>, "ACTIVE"),
      Cert("CERT-008", "CIO-SC", <<>>, "ACTIVE"),
      Cert("CERT-009", "DIACC", <<PlusMs(Start, 10 * MsPerDay)>>, "ACTIVE"),
      Cert("CERT-010", "DIACC", <<>>, "ACTIVE")>>

ScoredCertifications ==
    {SubSeq(fiveActive, 1, n) : n \in 0..5}
    \cup {<<certSuspended, certActive>>,
          <<certSoon, certActive, certSuspended>>,
          <<certSoon>> \o SubSeq(fiveActive, 1, 3),
          <<Cert("CERT-011", "DIACC", <<>>, "EXPIRED")>>}

ScoredEntries ==
    { Entry("p1", "Demo", st, loa, certs, reg, ver, <<>>, score) :
        st \in TrustStatus, loa \in AssuranceLevel,
        certs \in ScoredCertifications,
        reg \in {RegOld, RegRecent}, ver \in {VerStale, VerFresh},
        score \in {0, 85} }

(***************************************************************************)
(* State.                                                                  *)
(***************************************************************************)
VARIABLES
    trustEntries,         \* Map<string, TrustRegistryEntry>, as a function
    entryOrder,           \* the insertion order of that Map's keys
    verificationHistory,  \* Map<string, TrustVerificationResult[]>
    status,               \* ProcessStatus of the provider
    now,                  \* the wall clock (new Date(), Date.now())
    result                \* the ProcessResult the caller is handed, if any

\* the orchestrator (PCTFFramework): its participant directory and its six
\* provider maps, each kept as a function from participantId
VARIABLES
    participants,             \* Map<string, PCTFParticipant>
    authenticationProviders,  \* Map<string, AuthenticationServiceProvider>
    identityProviders,        \* Map<string, IdentityProvider>
    privacyProviders,         \* Map<string, PrivacyServiceProvider>
    infrastructureProviders,  \* Map<string, InfrastructureServiceProvider>
    walletProviders,          \* Map<string, DigitalWalletProvider>
    trustRegistries           \* Map<string, TrustRegistryProvider>

\* calls that were started and not awaited
VARIABLES
    pending,   \* the calls suspended at an await, in the order they resume
    settled    \* the envelopes of the calls that have returned, in that order

registryVars ==
    <<trustEntries, entryOrder, verificationHistory, status, now>>

frameworkVars ==
    <<participants, authenticationProviders, identityProviders,
      privacyProviders, infrastructureProviders, walletProviders,
      trustRegistries>>

asyncVars == <<pending, settled>>

vars == <<registryVars, result, frameworkVars, asyncVars>>

EmptyMap == [k \in {} |-> k]

Put(map, key, value) ==
    [k \in DOMAIN map \cup {key} |-> IF k = key THEN value ELSE map[k]]

\* the result envelope {success, message, data?, errors?} (an absent data is
\* <<>>, a present one <<data>>; absent errors are <<>>); call is the
\* operation's name followed by its arguments.  The envelope's timestamp,
\* which nothing reads, is left out.
Envelope(call, ok, msg, data, errs) ==
    [call |-> call, success |-> ok, message |-> msg, data |-> data,
     errors |-> errs]

\* no call has returned since the caller took the last result
NoResult == Envelope(<<>>, TRUE, "", <<>>, <<>>)

(***************************************************************************)
(* Pure helpers of the provider.                                           *)
(***************************************************************************)
validateInput(entry) ==
    /\ entry.participantId # ""
    /\ entry.name # ""
    /\ entry.type # ""
    /\ entry.assuranceLevel # ""
    /\ entry.contactInformation # ""

\* certifications.filter(cert => cert.status === 'ACTIVE' &&
\*     (!cert.expirationDate || cert.expirationDate > new Date()))
activeCerts(certifications, t) ==
    LET isActive(cert) ==
            /\ cert.status = "ACTIVE"
            /\ (cert.expirationDate = <<>> \/ After(cert.expirationDate[1], t))
    IN  SelectSeq(certifications, isActive)

\* mutant: the certifications' contribution is not capped at 20
rawTrustScore_uncappedCertifications(entry, t) ==
    LET statusPart ==
            CASE entry.status = "TRUSTED" -> 30
              [] entry.status = "PROVISIONAL" -> 10
              [] entry.status = "SUSPENDED" -> 0 - 20
              [] entry.status = "REVOKED" -> 0 - 50
              [] OTHER -> 0
        assurancePart ==
            CASE entry.assuranceLevel = "LOA4" -> 20
              [] entry.assuranceLevel = "LOA3" -> 15
              [] entry.assuranceLevel = "LOA2" -> 10
              [] entry.assuranceLevel = "LOA1" -> 5
              [] OTHER -> 0
        certPart == Len(activeCerts(entry.certifications, t)) * 5
        agePart == IF DaysSince(entry.registrationDate, t) > 365 THEN 5 ELSE 0
        stalePart == IF DaysSince(entry.lastVerified, t) > 90 THEN 5 ELSE 0
    IN  50 + statusPart + assurancePart + certPart + agePart - stalePart

\* the score calculateTrustScore accumulates before it clamps
rawTrustScore(entry, t) ==
    LET statusPart ==
            CASE entry.status = "TRUSTED" -> 30
              [] entry.status = "PROVISIONAL" -> 10
              [] entry.status = "SUSPENDED" -> 0 - 20
              [] entry.status = "REVOKED" -> 0 - 50
              [] OTHER -> 0
        assurancePart ==
            CASE entry.assuranceLevel = "LOA4" -> 20
              [] entry.assuranceLevel = "LOA3" -> 15
              [] entry.assuranceLevel = "LOA2" -> 10
              [] entry.assuranceLevel = "LOA1" -> 5
              [] OTHER -> 0
        certPart == Min(Len(activeCerts(entry.certifications, t)) * 5, 20)
        agePart == IF DaysSince(entry.registrationDate, t) > 365 THEN 5 ELSE 0
        stalePart == IF DaysSince(entry.lastVerified, t) > 90 THEN 5 ELSE 0
    IN  50 + statusPart + assurancePart + certPart + agePart - stalePart

\* mutant: the final Math.max(0, Math.min(100, score)) is left out
calculateTrustScore_noClamp(entry, t) == rawTrustScore(entry, t)

calculateTrustScore(entry, t) == Max(0, Min(100, rawTrustScore(entry, t)))

\* mutant: the loop stops at the first certification it finds an issue with
RECURSIVE certificationIssues_firstOnly(_, _)
certificationIssues_firstOnly(certifications, t) ==
    IF certifications = <<>> THEN <<>>
    ELSE LET cert == Head(certifications)
             missing ==
                 IF cert.certificationId = "" \/ cert.issuingAuthority = ""
                 THEN << <<"Invalid certification: missing required fields">> >>
                 ELSE <<>>
             expired ==
                 IF cert.expirationDate # <<>> /\ Before(cert.expirationDate[1], t)
                 THEN << <<"Certification", cert.certificationId, "has expired">> >>
                 ELSE <<>>
         IN  IF missing \o expired # <<>>
             THEN missing \o expired
             ELSE certificationIssues_firstOnly(Tail(certifications), t)

\* the issues validateCertifications collects, in order
RECURSIVE certificationIssues(_, _)
certificationIssues(certifications, t) ==
    IF certifications = <<>> THEN <<>>
    ELSE LET cert == Head(certifications)
             missing ==
                 IF cert.certificationId = "" \/ cert.issuingAuthority = ""
                 THEN << <<"Invalid certification: missing required fields">> >>
                 ELSE <<>>
             expired ==
                 IF cert.expirationDate # <<>> /\ Before(cert.expirationDate[1], t)
                 THEN << <<"Certification", cert.certificationId, "has expired">> >>
                 ELSE <<>>
         IN  missing \o expired \o certificationIssues(Tail(certifications), t)

\* mutant: the issues are counted and not returned
validateCertifications_withoutIssues(call, certifications, t) ==
    LET issues == certificationIssues(certifications, t)
    IN  IF Len(issues) > 0
        THEN Envelope(call, FALSE, "Certification validation failed", <<>>, <<>>)
        ELSE Envelope(call, TRUE, "Certification validation passed", <<>>, <<>>)

validateCertifications(call, certifications, t) ==
    LET issues == certificationIssues(certifications, t)
    IN  IF Len(issues) > 0
        THEN Envelope(call, FALSE, "Certification validation failed", <<>>, issues)
        ELSE Envelope(call, TRUE, "Certification validation passed", <<>>, <<>>)


\* the issues validateRegistryIntegrity collects for one entry, in order
RECURSIVE expiredCertificationIssues(_, _, _)
expiredCertificationIssues(participantId, certifications, t) ==
    IF certifications = <<>> THEN <<>>
    ELSE LET cert == Head(certifications)
             expired ==
                 IF cert.expirationDate # <<>> /\ Before(cert.expirationDate[1], t)
                 THEN << <<"Certification", cert.certificationId, "for",
                           participantId, "has expired">> >>
                 ELSE <<>>
         IN  expired \o expiredCertificationIssues(participantId,
                                                   Tail(certifications), t)

\* mutant: the expirationDate of the entry itself is not looked at
entryIssues_certificationsOnly(participantId, entry, t) ==
    LET score ==
            IF entry.trustScore < 0 \/ entry.trustScore > 100
            THEN << <<"Invalid trust score for", participantId>> >>
            ELSE <<>>
    IN  expiredCertificationIssues(participantId, entry.certifications, t)
        \o score

entryIssues(participantId, entry, t) ==
    LET expired ==
            IF entry.expirationDate # <<>> /\ Before(entry.expirationDate[1], t)
            THEN << <<"Entry", participantId, "has expired">> >>
            ELSE <<>>
        score ==
            IF entry.trustScore < 0 \/ entry.trustScore > 100
            THEN << <<"Invalid trust score for", participantId>> >>
            ELSE <<>>
    IN  expired
        \o expiredCertificationIssues(participantId, entry.certifications, t)
        \o score

\* the issues of the entries keyed by `order`, in that order
RECURSIVE integrityIssues(_, _, _)
integrityIssues(entries, order, t) ==
    IF order = <<>> THEN <<>>
    ELSE entryIssues(Head(order), entries[Head(order)], t)
         \o integrityIssues(entries, Tail(order), t)

\* mutant: the issues found are not looked at
validateRegistryIntegrity_ignoresIssues(call, entries, order, t) ==
    Envelope(call, TRUE, "Registry integrity validation passed", <<>>, <<>>)

validateRegistryIntegrity(call, entries, order, t) ==
    LET issues == integrityIssues(entries, order, t)
    IN  IF Len(issues) > 0
        THEN Envelope(call, FALSE, "Registry integrity validation failed",
                      <<>>, issues)
        ELSE Envelope(call, TRUE, "Registry integrity validation passed",
                      <<>>, <<>>)

updateTrustScores(entries, t) ==
    [id \in DOMAIN entries |->
        [entries[id] EXCEPT !.trustScore = calculateTrustScore(entries[id], t)]]

\* mutant: the status of the expired entry is not looked at
processExpiredEntries_anyStatus(entries, t) ==
    [id \in DOMAIN entries |->
        IF /\ entries[id].expirationDate # <<>>
           /\ Before(entries[id].expirationDate[1], t)
        THEN [entries[id] EXCEPT !.status = "SUSPENDED"]
        ELSE entries[id]]

processExpiredEntries(entries, t) ==
    [id \in DOMAIN entries |->
        IF /\ entries[id].expirationDate # <<>>
           /\ Before(entries[id].expirationDate[1], t)
           /\ entries[id].status = "TRUSTED"
        THEN [entries[id] EXCEPT !.status = "SUSPENDED"]
        ELSE entries[id]]

passedChecks(entry, t) ==
    (IF entry.status = "TRUSTED"
     THEN << <<"Trust status verification">> >> ELSE <<>>)
    \o (IF Len(activeCerts(entry.certifications, t)) > 0
        THEN << <<"Active certifications found">> >> ELSE <<>>)
    \o (IF entry.trustScore >= 70
        THEN << <<"Trust score meets threshold">> >> ELSE <<>>)

\* mutant: a score under the recommended threshold fails the check
failedChecks_warningFails(entry, t) ==
    (IF entry.status = "TRUSTED"
     THEN <<>> ELSE << <<"Trust status is", entry.status>> >>)
    \o (IF Len(activeCerts(entry.certifications, t)) > 0
        THEN <<>> ELSE << <<"No active certifications">> >>)
    \o (IF entry.trustScore >= 70
        THEN <<>> ELSE << <<"Trust score too low">> >>)

failedChecks(entry, t) ==
    (IF entry.status = "TRUSTED"
     THEN <<>> ELSE << <<"Trust status is", entry.status>> >>)
    \o (IF Len(activeCerts(entry.certifications, t)) > 0
        THEN <<>> ELSE << <<"No active certifications">> >>)
    \o (IF entry.trustScore >= 70 \/ entry.trustScore >= 50
        THEN <<>> ELSE << <<"Trust score too low">> >>)

\* mutant: every score under the recommended threshold is warned about
warningChecks_everyLowScore(entry, t) ==
    IF ~(entry.trustScore >= 70)
    THEN << <<"Trust score below recommended threshold">> >>
    ELSE <<>>

warningChecks(entry, t) ==
    IF ~(entry.trustScore >= 70) /\ entry.trustScore >= 50
    THEN << <<"Trust score below recommended threshold">> >>
    ELSE <<>>

\* mutant: the persisted status does not override the computed one
overallTrustStatus_computedOnly(entry, failed) ==
    IF Len(failed) > 0 THEN "PROVISIONAL" ELSE "TRUSTED"

\* mutant: a failed check gives UNKNOWN
overallTrustStatus_unknownOnFailure(entry, failed) ==
    LET computed == IF Len(failed) > 0 THEN "UNKNOWN" ELSE "TRUSTED"
    IN  IF entry.status # "TRUSTED" THEN entry.status ELSE computed

\* "Determine overall trust status"
overallTrustStatus(entry, failed) ==
    LET computed == IF Len(failed) > 0 THEN "PROVISIONAL" ELSE "TRUSTED"
    IN  IF entry.status # "TRUSTED" THEN entry.status ELSE computed

\* mutant: the score reported is computed anew
performTrustVerification_recomputesScore(entry, t) ==
    LET passed == passedChecks(entry, t)
        failed == failedChecks(entry, t)
        warnings == warningChecks(entry, t)
    IN  [participantId |-> entry.participantId,
         trustStatus |-> overallTrustStatus(entry, failed),
         trustScore |-> calculateTrustScore(entry, t),
         verificationDate |-> t,
         verificationDetails |->
             [criteriaChecked |-> passed \o failed \o warnings,
              passed |-> passed, failed |-> failed, warnings |-> warnings],
         validity |-> [validFrom |-> t,
                       validUntil |-> PlusMs(t, 24 * 60 * 60 * 1000)]]

performTrustVerification(entry, t) ==
    LET passed == passedChecks(entry, t)
        failed == failedChecks(entry, t)
        warnings == warningChecks(entry, t)
    IN  [participantId |-> entry.participantId,
         trustStatus |-> overallTrustStatus(entry, failed),
         trustScore |-> entry.trustScore,
         verificationDate |-> t,
         verificationDetails |->
             [criteriaChecked |-> passed \o failed \o warnings,
              passed |-> passed, failed |-> failed, warnings |-> warnings],
         validity |-> [validFrom |-> t,
                       validUntil |-> PlusMs(t, 24 * 60 * 60 * 1000)]]

\* mutant: the new result replaces the history
pushResult_replaces(history, verificationResult) == <<verificationResult>>

\* this.verificationHistory.get(participantId)!.push(verificationResult)
pushResult(history, verificationResult) == Append(history, verificationResult)

\* mutant: the status is changed and the score is left as it was
updatedEntry_keepsScore(entry, newStatus, t) ==
    [entry EXCEPT !.status = newStatus, !.lastVerified = t]

\* mutant: the score is computed before the status is changed
updatedEntry_scoreFirst(entry, newStatus, t) ==
    [entry EXCEPT !.status = newStatus, !.lastVerified = t,
                  !.trustScore = calculateTrustScore(entry, t)]

\* the entry after updateParticipantStatus has assigned its three fields
updatedEntry(entry, newStatus, t) ==
    LET touched == [entry EXCEPT !.status = newStatus, !.lastVerified = t]
    IN  [touched EXCEPT !.trustScore = calculateTrustScore(touched, t)]

\* mutant: the submitted trustScore is stored as it came
registeredEntry_keepsScore(entry, t) == entry

\* the entry registerParticipant stores
registeredEntry(entry, t) ==
    [entry EXCEPT !.trustScore = calculateTrustScore(entry, t)]

\* mutant: the duplicate check is left out
alreadyRegistered_never(entries, participantId) == FALSE

\* this.trustEntries.has(entry.participantId)
alreadyRegistered(entries, participantId) == participantId \in DOMAIN entries

\* getVerificationHistory: this.verificationHistory.get(participantId) || []
getVerificationHistory(participantId) ==
    IF participantId \in DOMAIN verificationHistory
    THEN verificationHistory[participantId]
    ELSE <<>>

\* the instants a later clock read of the same call can return
LaterReads(t) ==
    {t} \cup (IF TicksOf(t) < MaxTick THEN {PlusMs(t, TickStep)} ELSE {})

(***************************************************************************)
(* Init and the operations.  Each operation is one step: the caller awaits *)
(* it, and holds its result until Return.  The entries submitted carry     *)
(* every field the operations dereference, so no operation throws and the  *)
(* catch blocks are not entered.                                           *)
(***************************************************************************)
\* a PCTFFramework as constructed: the directory and the provider maps are
\* empty
FrameworkInit ==
    /\ participants = EmptyMap
    /\ authenticationProviders = EmptyMap
    /\ identityProviders = EmptyMap
    /\ privacyProviders = EmptyMap
    /\ infrastructureProviders = EmptyMap
    /\ walletProviders = EmptyMap
    /\ trustRegistries = EmptyMap

\* no call is under way
NoCalls == pending = <<>> /\ settled = <<>>

Init ==
    /\ trustEntries = EmptyMap
    /\ entryOrder = <<>>
    /\ verificationHistory = EmptyMap
    /\ status = "PENDING"
    /\ now = Start
    /\ result = NoResult
    /\ FrameworkInit
    /\ NoCalls

registerParticipant(entry) ==
    LET call == <<"registerParticipant", entry>>
        certificationValidation ==
            validateCertifications(call, entry.certifications, now)
        stored == registeredEntry(entry, now)
    IN  /\ IF ~validateInput(entry)
           THEN /\ result' = Envelope(call, FALSE,
                                 "Invalid trust registry entry data", <<>>, <<>>)
                /\ UNCHANGED <<trustEntries, entryOrder>>
           ELSE IF alreadyRegistered(trustEntries, entry.participantId)
           THEN /\ result' = Envelope(call, FALSE,
                                 "Participant already registered", <<>>, <<>>)
                /\ UNCHANGED <<trustEntries, entryOrder>>
           ELSE IF ~certificationValidation.success
           THEN /\ result' = certificationValidation
                /\ UNCHANGED <<trustEntries, entryOrder>>
           ELSE /\ trustEntries' = Put(trustEntries, entry.participantId, stored)
                /\ entryOrder' =
                       IF entry.participantId \in DOMAIN trustEntries
                       THEN entryOrder
                       ELSE Append(entryOrder, entry.participantId)
                /\ result' = Envelope(call, TRUE,
                                 "Participant registered successfully",
                                 << [participantId |-> entry.participantId,
                                     trustScore |-> stored.trustScore] >>, <<>>)
        /\ UNCHANGED <<verificationHistory, status, now>>

\* mutant: the history list of the id is created before the entry is looked
\* up
verifyTrust_createsHistoryFirst(participantId) ==
    LET call == <<"verifyTrust", participantId>>
        history == Put(verificationHistory, participantId,
                       getVerificationHistory(participantId))
    IN  /\ IF participantId \notin DOMAIN trustEntries
           THEN /\ result' = Envelope(call, FALSE,
                                 "Participant not found in trust registry",
                                 <<>>, <<>>)
                /\ verificationHistory' = history
           ELSE LET verificationResult ==
                        performTrustVerification(trustEntries[participantId], now)
                IN  /\ verificationHistory' =
                           Put(verificationHistory, participantId,
                               pushResult(getVerificationHistory(participantId),
                                          verificationResult))
                    /\ result' = Envelope(call, TRUE,
                                     "Trust verification completed",
                                     << [verificationResult |-> verificationResult] >>,
                                     <<>>)
        /\ UNCHANGED <<trustEntries, entryOrder, status, now>>

verifyTrust(participantId) ==
    LET call == <<"verifyTrust", participantId>>
    IN  /\ IF participantId \notin DOMAIN trustEntries
           THEN /\ result' = Envelope(call, FALSE,
                                 "Participant not found in trust registry",
                                 <<>>, <<>>)
                /\ UNCHANGED verificationHistory
           ELSE LET verificationResult ==
                        performTrustVerification(trustEntries[participantId], now)
                IN  /\ verificationHistory' =
                           Put(verificationHistory, participantId,
                               pushResult(getVerificationHistory(participantId),
                                          verificationResult))
                    /\ result' = Envelope(call, TRUE,
                                     "Trust verification completed",
                                     << [verificationResult |-> verificationResult] >>,
                                     <<>>)
        /\ UNCHANGED <<trustEntries, entryOrder, status, now>>

updateParticipantStatus(participantId, newStatus) ==
    LET call == <<"updateParticipantStatus", participantId, newStatus>>
    IN  /\ IF participantId \notin DOMAIN trustEntries
           THEN /\ result' = Envelope(call, FALSE, "Participant not found",
                                      <<>>, <<>>)
                /\ UNCHANGED trustEntries
           ELSE LET previousStatus == trustEntries[participantId].status
                    entry == updatedEntry(trustEntries[participantId],
                                          newStatus, now)
                IN  /\ trustEntries' = [trustEntries EXCEPT ![participantId] = entry]
                    /\ result' = Envelope(call, TRUE,
                                     "Participant status updated successfully",
                                     << [participantId |-> participantId,
                                         previousStatus |-> previousStatus,
                                         newStatus |-> newStatus,
                                         trustScore |-> entry.trustScore] >>,
                                     <<>>)
        /\ UNCHANGED <<entryOrder, verificationHistory, status, now>>

\* mutant: a failed integrity check returns without setting the status
executeProcess_leavesInProgress ==
    LET call == <<"executeProcess">>
        integrityCheck ==
            validateRegistryIntegrity(call, trustEntries, entryOrder, now)
    IN  /\ IF ~integrityCheck.success
           THEN /\ status' = "IN_PROGRESS"
                /\ result' = integrityCheck
                /\ UNCHANGED <<trustEntries, now>>
           ELSE \E tScores \in LaterReads(now) :
                \E tExpired \in LaterReads(tScores) :
                    /\ trustEntries' =
                           processExpiredEntries(
                               updateTrustScores(trustEntries, tScores), tExpired)
                    /\ status' = "COMPLETED"
                    /\ now' = tExpired
                    /\ result' = Envelope(call, TRUE,
                                     "Trust registry validated successfully",
                                     << [entryCount |->
                                            Cardinality(DOMAIN trustEntries)] >>,
                                     <<>>)
        /\ UNCHANGED <<entryOrder, verificationHistory>>

\* the sweep; its three passes read the clock one after the other
executeProcess ==
    LET call == <<"executeProcess">>
        integrityCheck ==
            validateRegistryIntegrity(call, trustEntries, entryOrder, now)
    IN  /\ IF ~integrityCheck.success
           THEN /\ status' = "FAILED"
                /\ result' = integrityCheck
                /\ UNCHANGED <<trustEntries, now>>
           ELSE \E tScores \in LaterReads(now) :
                \E tExpired \in LaterReads(tScores) :
                    /\ trustEntries' =
                           processExpiredEntries(
                               updateTrustScores(trustEntries, tScores), tExpired)
                    /\ status' = "COMPLETED"
                    /\ now' = tExpired
                    /\ result' = Envelope(call, TRUE,
                                     "Trust registry validated successfully",
                                     << [entryCount |->
                                            Cardinality(DOMAIN trustEntries)] >>,
                                     <<>>)
        /\ UNCHANGED <<entryOrder, verificationHistory>>

\* the filter of searchTrustRegistry; a criterion that is absent ("" or 0)
\* excludes nothing
matchesCriteria(entry, criteria) ==
    /\ ~(criteria.type # "" /\ entry.type # criteria.type)
    /\ ~(criteria.status # "" /\ entry.status # criteria.status)
    /\ ~(criteria.assuranceLevel # ""
         /\ entry.assuranceLevel # criteria.assuranceLevel)
    /\ ~(criteria.minTrustScore # 0
         /\ entry.trustScore < criteria.minTrustScore)

\* searchTrustRegistry returns the matching entries in insertion order; the
\* caller holds the array as the data of its result
searchTrustRegistry(criteria) ==
    LET call == <<"searchTrustRegistry", criteria>>
        matches(id) == matchesCriteria(trustEntries[id], criteria)
        found == SelectSeq(entryOrder, matches)
    IN  /\ result' = Envelope(call, TRUE, "",
                          [i \in 1..Len(found) |-> trustEntries[found[i]]],
                          <<>>)
        /\ UNCHANGED registryVars

\* the caller (which awaits every call) takes the result and goes on
Return ==
    /\ result # NoResult
    /\ result' = NoResult
    /\ UNCHANGED <<registryVars, frameworkVars, asyncVars>>

\* time passes between calls
Tick ==
    /\ result = NoResult
    /\ TicksOf(now) < MaxTick
    /\ now' = PlusMs(now, TickStep)
    /\ UNCHANGED <<trustEntries, entryOrder, verificationHistory, status, result>>
    /\ UNCHANGED <<frameworkVars, asyncVars>>

\* the verifications held in the histories are fewer than limit
HistoryRoom(limit) ==
    LET RECURSIVE total(_)
        total(ids) ==
            IF ids = {} THEN 0
            ELSE LET id == CHOOSE x \in ids : TRUE
                 IN  Len(verificationHistory[id]) + total(ids \ {id})
    IN  total(DOMAIN verificationHistory) < limit

Next ==
    \/ /\ result = NoResult
       /\ \E entry \in Submissions : registerParticipant(entry)
       /\ UNCHANGED <<frameworkVars, asyncVars>>
    \/ /\ result = NoResult
       /\ HistoryRoom(MaxHistory)
       /\ \E participantId \in Ids : verifyTrust(participantId)
       /\ UNCHANGED <<frameworkVars, asyncVars>>
    \/ /\ result = NoResult
       /\ \E request \in StatusRequests :
              updateParticipantStatus(request[1], request[2])
       /\ UNCHANGED <<frameworkVars, asyncVars>>
    \/ /\ result = NoResult
       /\ executeProcess
       /\ UNCHANGED <<frameworkVars, asyncVars>>
    \/ Return
    \/ Tick

Spec == Init /\ [][Next]_vars

(***************************************************************************)
(* The verification procedure on its own: the store holds one entry drawn  *)
(* from VerifiedEntries and is only verified.                              *)
(***************************************************************************)
InitVerify ==
    /\ trustEntries \in {[id \in {"p1"} |-> entry] : entry \in VerifiedEntries}
    /\ entryOrder = <<"p1">>
    /\ verificationHistory = EmptyMap
    /\ status = "PENDING"
    /\ now = Start
    /\ result = NoResult
    /\ FrameworkInit
    /\ NoCalls

NextVerify ==
    \/ /\ result = NoResult
       /\ HistoryRoom(MaxHistory)
       /\ \E participantId \in Ids : verifyTrust(participantId)
       /\ UNCHANGED <<frameworkVars, asyncVars>>
    \/ Return
    \/ Tick

SpecVerify == InitVerify /\ [][NextVerify]_vars

(***************************************************************************)
(* The registry over fewer inputs and two more verifications.              *)
(***************************************************************************)
NextHistory ==
    \/ /\ result = NoResult
       /\ \E entry \in HistorySubmissions : registerParticipant(entry)
       /\ UNCHANGED <<frameworkVars, asyncVars>>
    \/ /\ result = NoResult
       /\ HistoryRoom(MaxHistory + 2)
       /\ \E participantId \in Ids : verifyTrust(participantId)
       /\ UNCHANGED <<frameworkVars, asyncVars>>
    \/ /\ result = NoResult
       /\ \E request \in HistoryRequests :
              updateParticipantStatus(request[1], request[2])
       /\ UNCHANGED <<frameworkVars, asyncVars>>
    \/ /\ result = NoResult
       /\ executeProcess
       /\ UNCHANGED <<frameworkVars, asyncVars>>
    \/ Return
    \/ Tick

SpecHistory == Init /\ [][NextHistory]_vars

(***************************************************************************)
(* The scoring function on its own: one participant, registered in an     *)
(* empty registry with any of ScoredEntries, then rescored by status       *)
(* updates and by the sweep as time passes, and verified once.             *)
(***************************************************************************)
NextScore ==
    \/ /\ result = NoResult
       /\ trustEntries = EmptyMap
       /\ \E entry \in ScoredEntries : registerParticipant(entry)
       /\ UNCHANGED <<frameworkVars, asyncVars>>
    \/ /\ result = NoResult
       /\ verificationHistory = EmptyMap
       /\ \E participantId \in Ids : verifyTrust(participantId)
       /\ UNCHANGED <<frameworkVars, asyncVars>>
    \/ /\ result = NoResult
       /\ \E request \in StatusRequests :
              updateParticipantStatus(request[1], request[2])
       /\ UNCHANGED <<frameworkVars, asyncVars>>
    \/ /\ result = NoResult
       /\ executeProcess
       /\ UNCHANGED <<frameworkVars, asyncVars>>
    \/ Return
    \/ Tick

SpecScore == Init /\ [][NextScore]_vars

(***************************************************************************)
(* The orchestrator (PCTFFramework): registration with its dispatch on the *)
(* participant type, and the conformance assessment.  In this part every   *)
(* call is awaited, so each is one step.                                   *)
(***************************************************************************)
ParticipantType ==
    {"CREDENTIAL_SERVICE_PROVIDER", "AUTHENTICATION_SERVICE_PROVIDER",
     "IDENTITY_PROVIDER", "VERIFIER", "ISSUER", "WALLET_PROVIDER",
     "TRUST_REGISTRY", "RELYING_PARTY"}

Participant(id, nm, tp, loa) ==
    [participantId |-> id, name |-> nm, type |-> tp,
     certificationLevel |-> loa, isActive |-> TRUE, registrationDate |-> Start]

\* the participants callers submit: the first participant with every type
\* (and one outside the enumeration) at every level, the second with three
\* types at two levels, and submissions that lack a required field
FrameworkSubmissions ==
    { Participant("p1", "Demo", tp, loa) :
        tp \in ParticipantType \cup {"AUDITOR"}, loa \in AssuranceLevel }
    \cup { Participant("p2", "Demo", tp, loa) :
             tp \in {"ISSUER", "IDENTITY_PROVIDER", "TRUST_REGISTRY"},
             loa \in {"LOA2", "LOA3"} }
    \cup { Participant("", "Demo", "ISSUER", "LOA3"),
           Participant("p1", "", "VERIFIER", "LOA4"),
           Participant("p2", "Demo", "", "LOA3") }

\* mutant: the duplicate check is left out
validateParticipant_noDuplicateCheck(call, participant, directory) ==
    IF participant.participantId = "" \/ participant.name = ""
       \/ participant.type = ""
    THEN Envelope(call, FALSE, "Missing required participant information",
                  <<>>, <<>>)
    ELSE Envelope(call, TRUE, "Participant validation successful", <<>>, <<>>)

validateParticipant(call, participant, directory) ==
    IF participant.participantId = "" \/ participant.name = ""
       \/ participant.type = ""
    THEN Envelope(call, FALSE, "Missing required participant information",
                  <<>>, <<>>)
    ELSE IF participant.participantId \in DOMAIN directory
    THEN Envelope(call, FALSE, "Participant already registered", <<>>, <<>>)
    ELSE Envelope(call, TRUE, "Participant validation successful", <<>>, <<>>)

\* the cases of the switch in initializeServiceProviders
attachesAuthentication(participant) ==
    participant.type \in {"AUTHENTICATION_SERVICE_PROVIDER",
                          "CREDENTIAL_SERVICE_PROVIDER"}

attachesIdentity(participant) == participant.type = "IDENTITY_PROVIDER"

attachesWallet(participant) == participant.type = "WALLET_PROVIDER"

attachesTrustRegistry(participant) == participant.type = "TRUST_REGISTRY"

\* mutant: at LOA3 and LOA4 the infrastructure provider replaces the privacy
\* provider
attachesPrivacy_belowLOA3(participant) ==
    /\ participant.type \in {"ISSUER", "VERIFIER", "RELYING_PARTY"}
    /\ participant.certificationLevel \notin {"LOA3", "LOA4"}

attachesPrivacy(participant) ==
    participant.type \in {"ISSUER", "VERIFIER", "RELYING_PARTY"}

\* mutant: the infrastructure provider is attached at every level
attachesInfrastructure_anyLevel(participant) ==
    participant.type \in {"ISSUER", "VERIFIER", "RELYING_PARTY"}

attachesInfrastructure(participant) ==
    /\ participant.type \in {"ISSUER", "VERIFIER", "RELYING_PARTY"}
    /\ \/ participant.certificationLevel = "LOA3"
       \/ participant.certificationLevel = "LOA4"

\* the providers as their constructors leave them
AuthenticationServiceProvider(participant) ==
    [participantId |-> participant.participantId, name |-> participant.name,
     assuranceLevel |-> participant.certificationLevel]

IdentityProvider(participant) ==
    [providerId |-> participant.participantId, name |-> participant.name,
     assuranceLevel |-> participant.certificationLevel]

DigitalWalletProvider(participant) ==
    [walletId |-> <<"WALLET-", participant.participantId>>,
     ownerId |-> participant.participantId, walletType |-> "CLOUD",
     name |-> participant.name,
     assuranceLevel |-> participant.certificationLevel]

TrustRegistryProvider(participant) ==
    [registryId |-> participant.participantId, name |-> participant.name,
     governanceFramework |-> "DIACC-PCTF",
     assuranceLevel |-> participant.certificationLevel]

PrivacyServiceProvider(participant) ==
    [providerId |-> participant.participantId, name |-> participant.name]

InfrastructureServiceProvider(participant) ==
    [providerId |-> participant.participantId, name |-> participant.name,
     securityLevel |-> "ENHANCED",
     assuranceLevel |-> participant.certificationLevel]

\* map.set(participant.participantId, provider) when the case applies
attach(map, applies, participant, provider) ==
    IF applies THEN Put(map, participant.participantId, provider) ELSE map

initializeServiceProviders(participant) ==
    /\ authenticationProviders' =
           attach(authenticationProviders, attachesAuthentication(participant),
                  participant, AuthenticationServiceProvider(participant))
    /\ identityProviders' =
           attach(identityProviders, attachesIdentity(participant),
                  participant, IdentityProvider(participant))
    /\ walletProviders' =
           attach(walletProviders, attachesWallet(participant),
                  participant, DigitalWalletProvider(participant))
    /\ trustRegistries' =
           attach(trustRegistries, attachesTrustRegistry(participant),
                  participant, TrustRegistryProvider(participant))
    /\ privacyProviders' =
           attach(privacyProviders, attachesPrivacy(participant),
                  participant, PrivacyServiceProvider(participant))
    /\ infrastructureProviders' =
           attach(infrastructureProviders, attachesInfrastructure(participant),
                  participant, InfrastructureServiceProvider(participant))

\* the ids of the criteria each provider's getConformanceCriteria returns
getConformanceCriteria(componentName) ==
    CASE componentName = "Authentication" ->
             <<"AUTH-CC-01", "AUTH-CC-02", "AUTH-CC-03">>
      [] componentName = "VerifiedPerson" ->
             <<"VP-CC-01", "VP-CC-02", "VP-CC-03">>
      [] componentName = "Privacy" ->
             <<"PRIV-CC-01", "PRIV-CC-02", "PRIV-CC-03">>
      [] componentName = "Infrastructure" ->
             <<"INFRA-001", "INFRA-002", "INFRA-003">>
      [] componentName = "DigitalWallet" ->
             <<"WALLET-001", "WALLET-002", "WALLET-003">>
      [] componentName = "TrustRegistry" ->
             <<"TRUST-001", "TRUST-002", "TRUST-003">>

assessComponentConformance(componentName, criteria, t) ==
    LET assessedCriteria ==
            [i \in 1..Len(criteria) |->
                [criterionId |-> criteria[i], isConformant |-> TRUE,
                 lastAssessed |-> t]]
    IN  [componentName |-> componentName,
         isConformant |->
             \A i \in 1..Len(assessedCriteria) : assessedCriteria[i].isConformant,
         assessedCriteria |-> assessedCriteria,
         assessmentDate |-> t]

\* the result of one "if (provider)" block of assessConformance, if any
assessed(map, participantId, componentName, t) ==
    IF participantId \in DOMAIN map
    THEN << assessComponentConformance(componentName,
                getConformanceCriteria(componentName), t) >>
    ELSE <<>>

\* mutant: the infrastructure block comes before the privacy block
componentResultsOf_infrastructureFirst(participantId, maps, t) ==
    assessed(maps.authentication, participantId, "Authentication", t)
    \o assessed(maps.identity, participantId, "VerifiedPerson", t)
    \o assessed(maps.infrastructure, participantId, "Infrastructure", t)
    \o assessed(maps.privacy, participantId, "Privacy", t)
    \o assessed(maps.wallet, participantId, "DigitalWallet", t)
    \o assessed(maps.trustRegistry, participantId, "TrustRegistry", t)

\* the componentResults assessConformance builds, block after block, from
\* the six provider maps
componentResultsOf(participantId, maps, t) ==
    assessed(maps.authentication, participantId, "Authentication", t)
    \o assessed(maps.identity, participantId, "VerifiedPerson", t)
    \o assessed(maps.privacy, participantId, "Privacy", t)
    \o assessed(maps.infrastructure, participantId, "Infrastructure", t)
    \o assessed(maps.wallet, participantId, "DigitalWallet", t)
    \o assessed(maps.trustRegistry, participantId, "TrustRegistry", t)

\* mutant: a component that was not assessed counts as not conformant
overallConformanceOf_needsEveryComponent(componentResults) ==
    /\ Len(componentResults) = 6
    /\ \A i \in 1..Len(componentResults) : componentResults[i].isConformant

\* overallConformance after the blocks: true && r1.isConformant && ...
overallConformanceOf(componentResults) ==
    \A i \in 1..Len(componentResults) : componentResults[i].isConformant

PCTFFramework_registerParticipant(participant) ==
    LET call == <<"PCTFFramework.registerParticipant", participant>>
        validation == validateParticipant(call, participant, participants)
    IN  /\ IF ~validation.success
           THEN /\ result' = validation
                /\ UNCHANGED frameworkVars
           ELSE /\ participants' =
                       Put(participants, participant.participantId, participant)
                /\ initializeServiceProviders(participant)
                /\ result' = Envelope(call, TRUE,
                                 "Participant registered successfully",
                                 << [participantId |-> participant.participantId] >>,
                                 <<>>)
        /\ UNCHANGED <<registryVars, asyncVars>>

\* mutant: the assessment is written back to the participant, who stays
\* active only if some component was assessed
assessConformance_writesBack(participantId) ==
    LET call == <<"assessConformance", participantId>>
        componentResults ==
            componentResultsOf(participantId,
                [authentication |-> authenticationProviders,
                 identity |-> identityProviders,
                 privacy |-> privacyProviders,
                 infrastructure |-> infrastructureProviders,
                 wallet |-> walletProviders,
                 trustRegistry |-> trustRegistries], now)
    IN  /\ IF participantId \notin DOMAIN participants
           THEN /\ result' = Envelope(call, FALSE, "Participant not found",
                                      <<>>, <<>>)
                /\ UNCHANGED participants
           ELSE /\ result' = Envelope(call, TRUE,
                                 "Conformance assessment completed",
                                 << [participantId |-> participantId,
                                     assessmentDate |-> now,
                                     overallConformance |->
                                         overallConformanceOf(componentResults),
                                     componentResults |-> componentResults] >>,
                                 <<>>)
                /\ participants' =
                       [participants EXCEPT ![participantId].isActive =
                            Len(componentResults) > 0]
        /\ UNCHANGED <<authenticationProviders, identityProviders,
                       privacyProviders, infrastructureProviders,
                       walletProviders, trustRegistries>>
        /\ UNCHANGED <<registryVars, asyncVars>>

assessConformance(participantId) ==
    LET call == <<"assessConformance", participantId>>
        componentResults ==
            componentResultsOf(participantId,
                [authentication |-> authenticationProviders,
                 identity |-> identityProviders,
                 privacy |-> privacyProviders,
                 infrastructure |-> infrastructureProviders,
                 wallet |-> walletProviders,
                 trustRegistry |-> trustRegistries], now)
    IN  /\ IF participantId \notin DOMAIN participants
           THEN result' = Envelope(call, FALSE, "Participant not found",
                                   <<>>, <<>>)
           ELSE result' = Envelope(call, TRUE,
                              "Conformance assessment completed",
                              << [participantId |-> participantId,
                                  assessmentDate |-> now,
                                  overallConformance |->
                                      overallConformanceOf(componentResults),
                                  componentResults |-> componentResults] >>,
                              <<>>)
        /\ UNCHANGED <<registryVars, frameworkVars, asyncVars>>

NextFramework ==
    \/ /\ result = NoResult
       /\ \E participant \in FrameworkSubmissions :
              PCTFFramework_registerParticipant(participant)
    \/ /\ result = NoResult
       /\ \E participantId \in Ids : assessConformance(participantId)
    \/ Return

SpecFramework == Init /\ [][NextFramework]_vars

(***************************************************************************)
(* The orchestrator with its ecosystem check, over participants of the     *)
(* eight types that are active or not.                                     *)
(***************************************************************************)
EcosystemParticipant(id, tp, loa, active) ==
    [Participant(id, "Demo", tp, loa) EXCEPT !.isActive = active]

EcosystemSubmissions ==
    { EcosystemParticipant(id, tp, loa, active) :
        id \in Ids, tp \in ParticipantType, loa \in {"LOA2", "LOA3"},
        active \in BOOLEAN }

\* mutant: only the identity providers are looked for
checkInteroperability_identityOnly(identityMap, authenticationMap) ==
    IF DOMAIN identityMap = {}
    THEN <<"No identity providers registered">> ELSE <<>>

\* the issues checkInteroperability collects
checkInteroperability(identityMap, authenticationMap) ==
    (IF DOMAIN identityMap = {}
     THEN <<"No identity providers registered">> ELSE <<>>)
    \o (IF DOMAIN authenticationMap = {}
        THEN <<"No authentication providers registered">> ELSE <<>>)

validateEcosystem ==
    LET call == <<"validateEcosystem">>
        validationResults ==
            [participantCount |-> Cardinality(DOMAIN participants),
             activeParticipants |->
                 Cardinality({id \in DOMAIN participants :
                                 participants[id].isActive}),
             componentCoverage |->
                 [authentication |-> Cardinality(DOMAIN authenticationProviders),
                  identityProviders |-> Cardinality(DOMAIN identityProviders),
                  privacyProviders |-> Cardinality(DOMAIN privacyProviders)],
             interoperabilityIssues |->
                 checkInteroperability(identityProviders,
                                       authenticationProviders)]
        isValid == /\ validationResults.activeParticipants > 0
                   /\ Len(validationResults.interoperabilityIssues) = 0
    IN  /\ result' = Envelope(call, isValid,
                          IF isValid THEN "Ecosystem validation successful"
                          ELSE "Ecosystem validation issues found",
                          <<validationResults>>, <<>>)
        /\ UNCHANGED <<registryVars, frameworkVars, asyncVars>>

NextEcosystem ==
    \/ /\ result = NoResult
       /\ \E participant \in EcosystemSubmissions :
              PCTFFramework_registerParticipant(participant)
    \/ /\ result = NoResult
       /\ validateEcosystem
    \/ /\ result = NoResult
       /\ \E participantId \in Ids : assessConformance(participantId)
    \/ Return

SpecEcosystem == Init /\ [][NextEcosystem]_vars

(***************************************************************************)
(* The registry and the orchestrator side by side, over the inputs that    *)
(* make each of their operations fail and succeed.                         *)
(***************************************************************************)
ErrorSubmissions == {p1Expiring, p1BadCertifications, p1Unnamed}
ErrorRequests == {<<"p1", "SUSPENDED">>}
SearchCriteria ==
    {[type |-> "", status |-> st, assuranceLevel |-> "", minTrustScore |-> score] :
        st \in {"", "TRUSTED"}, score \in {0, 70}}
ErrorParticipants ==
    {Participant("p1", "Demo", "ISSUER", "LOA3"),
     Participant("p1", "", "VERIFIER", "LOA4")}

NextErrors ==
    \/ /\ result = NoResult
       /\ \E entry \in ErrorSubmissions : registerParticipant(entry)
       /\ UNCHANGED <<frameworkVars, asyncVars>>
    \/ /\ result = NoResult
       /\ HistoryRoom(MaxHistory)
       /\ verifyTrust("p1")
       /\ UNCHANGED <<frameworkVars, asyncVars>>
    \/ /\ result = NoResult
       /\ \E request \in ErrorRequests :
              updateParticipantStatus(request[1], request[2])
       /\ UNCHANGED <<frameworkVars, asyncVars>>
    \/ /\ result = NoResult
       /\ executeProcess
       /\ UNCHANGED <<frameworkVars, asyncVars>>
    \/ /\ result = NoResult
       /\ \E participant \in ErrorParticipants :
              PCTFFramework_registerParticipant(participant)
    \/ /\ result = NoResult
       /\ assessConformance("p1")
    \/ /\ result = NoResult
       /\ \E criteria \in SearchCriteria : searchTrustRegistry(criteria)
       /\ UNCHANGED <<frameworkVars, asyncVars>>
    \/ Return
    \/ Tick

SpecErrors == Init /\ [][NextErrors]_vars

(***************************************************************************)
(* Calls that are started without awaiting the one before.  An async       *)
(* function runs up to its first await when it is called; what follows the *)
(* await runs later, the suspended calls resuming in the order in which    *)
(* they were suspended.  Both registerParticipant operations are therefore *)
(* split at their awaits.                                                  *)
(***************************************************************************)
Suspended(op, pc, arg, validation) ==
    [op |-> op, pc |-> pc, arg |-> arg, validation |-> validation]

ConcurrentSubmissions == {p1Certified, p1Expiring, p1BadCertifications}
ConcurrentParticipants ==
    {Participant("p1", "Demo", "ISSUER", "LOA3"),
     Participant("p1", "Demo", "WALLET_PROVIDER", "LOA2"),
     Participant("p1", "", "VERIFIER", "LOA4")}

\* registry registerParticipant up to "await this.validateCertifications":
\* the two early returns, or the validation's result and the suspension
registerParticipantStart(entry) ==
    LET call == <<"registerParticipant", entry>>
    IN  /\ IF ~validateInput(entry)
           THEN /\ settled' = Append(settled, Envelope(call, FALSE,
                                  "Invalid trust registry entry data", <<>>, <<>>))
                /\ UNCHANGED pending
           ELSE IF alreadyRegistered(trustEntries, entry.participantId)
           THEN /\ settled' = Append(settled, Envelope(call, FALSE,
                                  "Participant already registered", <<>>, <<>>))
                /\ UNCHANGED pending
           ELSE /\ pending' = Append(pending,
                       Suspended("registerParticipant", "validated", entry,
                           validateCertifications(call, entry.certifications, now)))
                /\ UNCHANGED settled
        /\ UNCHANGED <<registryVars, result, frameworkVars>>

\* registry registerParticipant from the await to its return
registerParticipantResume ==
    /\ pending # <<>>
    /\ Head(pending).op = "registerParticipant"
    /\ LET entry == Head(pending).arg
           call == <<"registerParticipant", entry>>
           certificationValidation == Head(pending).validation
           stored == registeredEntry(entry, now)
       IN  IF ~certificationValidation.success
           THEN /\ settled' = Append(settled, certificationValidation)
                /\ UNCHANGED <<trustEntries, entryOrder>>
           ELSE /\ trustEntries' = Put(trustEntries, entry.participantId, stored)
                /\ entryOrder' =
                       IF entry.participantId \in DOMAIN trustEntries
                       THEN entryOrder
                       ELSE Append(entryOrder, entry.participantId)
                /\ settled' = Append(settled, Envelope(call, TRUE,
                                  "Participant registered successfully",
                                  << [participantId |-> entry.participantId,
                                      trustScore |-> stored.trustScore] >>, <<>>))
    /\ pending' = Tail(pending)
    /\ UNCHANGED <<verificationHistory, status, now, result, frameworkVars>>

\* orchestrator registerParticipant up to "await this.validateParticipant"
PCTFFramework_registerParticipantStart(participant) ==
    LET call == <<"PCTFFramework.registerParticipant", participant>>
    IN  /\ pending' = Append(pending,
                Suspended("PCTFFramework.registerParticipant", "validated",
                    participant,
                    validateParticipant(call, participant, participants)))
        /\ UNCHANGED <<registryVars, result, frameworkVars, settled>>

\* from there to "await this.initializeServiceProviders"
PCTFFramework_registerParticipantValidated ==
    /\ pending # <<>>
    /\ Head(pending).op = "PCTFFramework.registerParticipant"
    /\ Head(pending).pc = "validated"
    /\ LET participant == Head(pending).arg
           validation == Head(pending).validation
       IN  IF ~validation.success
           THEN /\ settled' = Append(settled, validation)
                /\ pending' = Tail(pending)
                /\ UNCHANGED frameworkVars
           ELSE /\ participants' =
                       Put(participants, participant.participantId, participant)
                /\ initializeServiceProviders(participant)
                /\ pending' = Append(Tail(pending),
                       Suspended("PCTFFramework.registerParticipant",
                                 "initialized", participant, validation))
                /\ UNCHANGED settled
    /\ UNCHANGED <<registryVars, result>>

\* and from there to the return
PCTFFramework_registerParticipantInitialized ==
    /\ pending # <<>>
    /\ Head(pending).op = "PCTFFramework.registerParticipant"
    /\ Head(pending).pc = "initialized"
    /\ LET participant == Head(pending).arg
           call == <<"PCTFFramework.registerParticipant", participant>>
       IN  settled' = Append(settled, Envelope(call, TRUE,
                          "Participant registered successfully",
                          << [participantId |-> participant.participantId] >>,
                          <<>>))
    /\ pending' = Tail(pending)
    /\ UNCHANGED <<registryVars, result, frameworkVars>>

\* the caller awaits all the calls it started and takes their results
AwaitAll ==
    /\ pending = <<>>
    /\ settled # <<>>
    /\ settled' = <<>>
    /\ UNCHANGED <<registryVars, result, frameworkVars, pending>>

NextConcurrent ==
    \/ /\ Len(pending) + Len(settled) < MaxCalls
       /\ \E entry \in ConcurrentSubmissions : registerParticipantStart(entry)
    \/ registerParticipantResume
    \/ /\ Len(pending) + Len(settled) < MaxCalls
       /\ \E participant \in ConcurrentParticipants :
              PCTFFramework_registerParticipantStart(participant)
    \/ PCTFFramework_registerParticipantValidated
    \/ PCTFFramework_registerParticipantInitialized
    \/ AwaitAll
    \/ Tick

SpecConcurrent == Init /\ [][NextConcurrent]_vars

(***************************************************************************)
(* The properties checked.                                                 *)
(***************************************************************************)
\* the step is a call of the operation op (the caller held no result before)
Calls(op) == result = NoResult /\ result' # NoResult /\ result'.call[1] = op

\* the state is the one a call of op has just returned in
Returned(op) == result # NoResult /\ result.call[1] = op

expiredAt(optionalDate, t) ==
    optionalDate # <<>> /\ Before(optionalDate[1], t)

\* C1: in every reachable state every stored entry has a trustScore
\* between 0 and 100, whatever trustScore was submitted.
C1_ScoreInRange ==
    \A id \in DOMAIN trustEntries :
        trustEntries[id].trustScore >= 0 /\ trustEntries[id].trustScore <= 100

\* an entry submitted with a score out of range is stored with the clamped
\* score, its unclamped sum being over 100
C1_Witness ==
    /\ Returned("registerParticipant")
    /\ result.success
    /\ result.call[2].trustScore > 100
    /\ rawTrustScore(result.call[2], now) > 100
    /\ trustEntries[result.call[2].participantId].trustScore = 100

\* C2: a registerParticipant call whose participantId is already stored
\* fails and leaves every stored entry, the insertion order and the
\* histories exactly as they were.
C2_DuplicateRejected ==
    [][(Calls("registerParticipant")
        /\ result'.call[2].participantId \in DOMAIN trustEntries)
       => /\ ~result'.success
          /\ trustEntries' = trustEntries
          /\ entryOrder' = entryOrder
          /\ verificationHistory' = verificationHistory]_vars

\* a duplicate submission that differs from the stored entry in status,
\* assurance level, certifications and dates has been rejected
C2_Witness ==
    /\ Returned("registerParticipant")
    /\ ~result.success
    /\ result.message = "Participant already registered"
    /\ LET submitted == result.call[2]
           kept == trustEntries[submitted.participantId]
       IN  /\ submitted.status # kept.status
           /\ submitted.assuranceLevel # kept.assuranceLevel
           /\ submitted.certifications # kept.certifications
           /\ submitted.registrationDate # kept.registrationDate
           /\ submitted.expirationDate # kept.expirationDate
           /\ submitted.trustScore # kept.trustScore

\* C3: the sweep turns every TRUSTED entry whose expirationDate is earlier
\* than now into SUSPENDED, and leaves an expired REVOKED entry REVOKED.
C3_SweepDemotesExpired ==
    [][Calls("executeProcess")
       => \A id \in DOMAIN trustEntries :
              expiredAt(trustEntries[id].expirationDate, now)
              => /\ trustEntries[id].status = "TRUSTED"
                    => trustEntries'[id].status = "SUSPENDED"
                 /\ trustEntries[id].status = "REVOKED"
                    => trustEntries'[id].status = "REVOKED"]_vars

\* the store fails the integrity check: some entry or certification has
\* expired, or some score is out of range
integrityBroken ==
    \E id \in DOMAIN trustEntries :
        \/ expiredAt(trustEntries[id].expirationDate, now)
        \/ \E i \in 1..Len(trustEntries[id].certifications) :
               expiredAt(trustEntries[id].certifications[i].expirationDate, now)
        \/ trustEntries[id].trustScore < 0
        \/ trustEntries[id].trustScore > 100

\* C4: an executeProcess that fails its integrity check returns
\* success=false and changes no entry and no history.
C4_IntegrityFailureChangesNothing ==
    [][(Calls("executeProcess") /\ integrityBroken)
       => /\ ~result'.success
          /\ trustEntries' = trustEntries
          /\ entryOrder' = entryOrder
          /\ verificationHistory' = verificationHistory]_vars

\* the sweep has failed on a store holding an expired TRUSTED entry whose
\* score a recompute would change: neither was touched
C4_Witness ==
    /\ Returned("executeProcess")
    /\ ~result.success
    /\ \E id \in DOMAIN trustEntries :
           /\ trustEntries[id].status = "TRUSTED"
           /\ expiredAt(trustEntries[id].expirationDate, now)
           /\ trustEntries[id].trustScore
                  # calculateTrustScore(trustEntries[id], now)

\* the result a successful verifyTrust has just returned
verificationResultOf(envelope) == envelope.data[1].verificationResult

\* C5: for a stored entry whose status is not TRUSTED, verifyTrust returns
\* that status as trustStatus, whatever the score, the certifications and
\* the passed, failed and warnings lists.
C5_PersistedStatusWins ==
    (Returned("verifyTrust") /\ result.success)
    => LET entry == trustEntries[result.call[2]]
       IN  entry.status # "TRUSTED"
           => verificationResultOf(result).trustStatus = entry.status

\* a SUSPENDED entry that passes the certification and the score check is
\* reported SUSPENDED
C5_Witness ==
    /\ Returned("verifyTrust")
    /\ result.success
    /\ trustEntries[result.call[2]].status = "SUSPENDED"
    /\ trustEntries[result.call[2]].trustScore >= 70
    /\ Len(verificationResultOf(result).verificationDetails.passed) = 2
    /\ verificationResultOf(result).trustStatus = "SUSPENDED"

\* some certification of the entry is ACTIVE and has no expirationDate or
\* one later than t
hasUsableCertification(entry, t) ==
    \E i \in 1..Len(entry.certifications) :
        /\ entry.certifications[i].status = "ACTIVE"
        /\ \/ entry.certifications[i].expirationDate = <<>>
           \/ After(entry.certifications[i].expirationDate[1], t)

\* C6: for a stored entry whose status is TRUSTED, verifyTrust returns
\* TRUSTED iff the entry has an ACTIVE unexpired certification and a
\* trustScore of at least 50, and PROVISIONAL otherwise; a score of 50..69
\* gives one warning and does not decide the result.
C6_TrustedDecision ==
    (Returned("verifyTrust") /\ result.success)
    => LET entry == trustEntries[result.call[2]]
           usable == hasUsableCertification(entry, now)
           verificationResult == verificationResultOf(result)
       IN  entry.status = "TRUSTED"
           => /\ verificationResult.trustStatus =
                     IF usable /\ entry.trustScore >= 50
                     THEN "TRUSTED" ELSE "PROVISIONAL"
              /\ (entry.trustScore >= 50 /\ entry.trustScore < 70)
                 => /\ Len(verificationResult.verificationDetails.warnings) = 1
                    /\ verificationResult.trustStatus =
                           IF usable THEN "TRUSTED" ELSE "PROVISIONAL"

\* a TRUSTED entry with a usable certification and a score of 50..69 is
\* reported TRUSTED, with a warning
C6_Witness ==
    /\ Returned("verifyTrust")
    /\ result.success
    /\ trustEntries[result.call[2]].status = "TRUSTED"
    /\ trustEntries[result.call[2]].trustScore \in 50..69
    /\ hasUsableCertification(trustEntries[result.call[2]], now)
    /\ verificationResultOf(result).trustStatus = "TRUSTED"
    /\ Len(verificationResultOf(result).verificationDetails.warnings) = 1

\* C7: a participant's verification history changes only by a successful
\* verifyTrust for that participant, which appends its result at the end;
\* every other step leaves it as it is, results already in it included.
C7_HistoryAppendOnly ==
    [][\A id \in Ids :
          LET before == getVerificationHistory(id)
              after == getVerificationHistory(id)'
          IN  /\ (Calls("verifyTrust") /\ result'.call[2] = id
                  /\ id \in DOMAIN trustEntries)
                 => /\ result'.success
                    /\ after = Append(before, verificationResultOf(result'))
              /\ ~(Calls("verifyTrust") /\ result'.call[2] = id
                   /\ id \in DOMAIN trustEntries)
                 => after = before]_vars

\* a history of two results whose first one still shows the status and
\* the score the entry had before they were changed
C7_Witness ==
    /\ Len(getVerificationHistory("p1")) = 2
    /\ getVerificationHistory("p1")[1].trustStatus # trustEntries["p1"].status
    /\ getVerificationHistory("p1")[1].trustScore
           # trustEntries["p1"].trustScore
    /\ getVerificationHistory("p1")[2].trustStatus = trustEntries["p1"].status
    /\ Len(getVerificationHistory("p2")) = 1

\* C8: updateParticipantStatus on a stored entry succeeds for every pair
\* of current and requested status, sets status and lastVerified, stores
\* the trust score of the updated entry and returns the previous status,
\* the new status and the stored score.
C8_StatusUpdate ==
    [][(Calls("updateParticipantStatus")
        /\ result'.call[2] \in DOMAIN trustEntries)
       => LET id == result'.call[2]
              requested == result'.call[3]
          IN  /\ result'.success
              /\ trustEntries'[id].status = requested
              /\ trustEntries'[id].lastVerified = now
              /\ trustEntries'[id].trustScore =
                     calculateTrustScore(
                         [trustEntries[id] EXCEPT !.status = requested,
                                                  !.lastVerified = now], now)
              /\ result'.data[1].previousStatus = trustEntries[id].status
              /\ result'.data[1].newStatus = requested
              /\ result'.data[1].trustScore = trustEntries'[id].trustScore]_vars

\* a REVOKED entry has been set back to TRUSTED and scored as TRUSTED
C8_Witness ==
    /\ Returned("updateParticipantStatus")
    /\ result.success
    /\ result.data[1].previousStatus = "REVOKED"
    /\ result.data[1].newStatus = "TRUSTED"
    /\ trustEntries[result.call[2]].status = "TRUSTED"
    /\ trustEntries[result.call[2]].trustScore >= 80

missingFields(cert) == cert.certificationId = "" \/ cert.issuingAuthority = ""

defective(cert, t) == missingFields(cert) \/ expiredAt(cert.expirationDate, t)

C10_RegistrationScore ==
    (Returned("registerParticipant") /\ result.success)
    => LET entry == result.call[2]
           stored == trustEntries[entry.participantId]
       IN  /\ stored.trustScore = calculateTrustScore(entry, now)
           /\ stored.trustScore =
                  calculateTrustScore([entry EXCEPT !.trustScore = 50], now)
           /\ result.data[1].trustScore = stored.trustScore
           /\ stored.status = entry.status
           /\ stored = [entry EXCEPT !.trustScore = stored.trustScore]

\* an entry submitted as TRUSTED with trustScore -5 is stored as TRUSTED
\* with the score 90 computed for it
C10_Witness ==
    /\ Returned("registerParticipant")
    /\ result.success
    /\ result.call[2].trustScore < 0
    /\ result.call[2].status = "TRUSTED"
    /\ trustEntries[result.call[2].participantId].status = "TRUSTED"
    /\ trustEntries[result.call[2].participantId].trustScore = 90
    /\ result.data[1].trustScore = 90

statusBonus(st) ==
    CASE st = "TRUSTED" -> 30
      [] st = "PROVISIONAL" -> 10
      [] st = "SUSPENDED" -> 0 - 20
      [] st = "REVOKED" -> 0 - 50
      [] st = "UNKNOWN" -> 0

assuranceBonus(loa) ==
    CASE loa = "LOA4" -> 20
      [] loa = "LOA3" -> 15
      [] loa = "LOA2" -> 10
      [] loa = "LOA1" -> 5

\* how many certifications are ACTIVE and not expired at t
activeCertCount(certifications, t) ==
    Cardinality({i \in 1..Len(certifications) :
        /\ certifications[i].status = "ACTIVE"
        /\ ~(/\ certifications[i].expirationDate # <<>>
              /\ ~After(certifications[i].expirationDate[1], t))})

\* the whole days from an instant to t, both counted in half days (the
\* registration and verification instants and the clock are all on half
\* days)
wholeDays(from, t) ==
    ((t.day * 2 + t.ms \div TickStep) - (from.day * 2 + from.ms \div TickStep))
        \div 2

\* the score the formula gives the entry at t
formulaScore(entry, t) ==
    LET sum == 50 + statusBonus(entry.status)
                  + assuranceBonus(entry.assuranceLevel)
                  + Min(5 * activeCertCount(entry.certifications, t), 20)
                  + (IF wholeDays(entry.registrationDate, t) > 365 THEN 5 ELSE 0)
                  - (IF wholeDays(entry.lastVerified, t) > 90 THEN 5 ELSE 0)
    IN  IF sum < 0 THEN 0 ELSE IF sum > 100 THEN 100 ELSE sum

\* C11: every score the registry computes (at registration, at a status
\* update, in the sweep) is the formula's value for the entry at that
\* instant: 50 + statusBonus + assuranceBonus + min(5 * activeCertCount, 20)
\* + ageBonus - stalePenalty, clamped to 0..100; it does not depend on the
\* score the entry carried, and a sweep at the instant the stored scores
\* were computed for stores the same scores again.
C11_ScoreFormula ==
    [][/\ (Calls("registerParticipant") /\ result'.success)
          => LET entry == result'.call[2]
             IN  /\ trustEntries'[entry.participantId].trustScore =
                        formulaScore(entry, now)
                 /\ result'.data[1].trustScore = formulaScore(entry, now)
       /\ (Calls("updateParticipantStatus") /\ result'.success)
          => LET id == result'.call[2]
             IN  trustEntries'[id].trustScore =
                     formulaScore([trustEntries[id] EXCEPT
                                      !.status = result'.call[3],
                                      !.lastVerified = now], now)
       /\ (Calls("executeProcess") /\ result'.success /\ now' = now)
          => /\ \A id \in DOMAIN trustEntries :
                    trustEntries'[id].trustScore =
                        formulaScore(trustEntries[id], now)
             /\ (\A id \in DOMAIN trustEntries :
                    trustEntries[id].trustScore =
                        formulaScore(trustEntries[id], now))
                => trustEntries' = trustEntries]_vars

\* a REVOKED LOA1 entry with five ACTIVE certifications, registered more
\* than 365 whole days ago and last verified more than 90 whole days ago,
\* has been given 50 - 50 + 5 + 20 + 5 - 5 = 25
C11_Witness ==
    /\ Returned("registerParticipant")
    /\ result.success
    /\ LET entry == result.call[2]
       IN  /\ entry.status = "REVOKED"
           /\ entry.assuranceLevel = "LOA1"
           /\ activeCertCount(entry.certifications, now) = 5
           /\ wholeDays(entry.registrationDate, now) = 366
           /\ wholeDays(entry.lastVerified, now) = 91
           /\ entry.trustScore = 85
           /\ trustEntries[entry.participantId].trustScore = 25

\* the provider kinds, in the order of the blocks of assessConformance
ProviderKinds ==
    <<"Authentication", "VerifiedPerson", "Privacy", "Infrastructure",
      "DigitalWallet", "TrustRegistry">>

\* the provider maps (by the component name of their kind) that have the id
\* as a key
kindsHolding(id) ==
    (IF id \in DOMAIN authenticationProviders THEN {"Authentication"} ELSE {})
    \cup (IF id \in DOMAIN identityProviders THEN {"VerifiedPerson"} ELSE {})
    \cup (IF id \in DOMAIN privacyProviders THEN {"Privacy"} ELSE {})
    \cup (IF id \in DOMAIN infrastructureProviders
          THEN {"Infrastructure"} ELSE {})
    \cup (IF id \in DOMAIN walletProviders THEN {"DigitalWallet"} ELSE {})
    \cup (IF id \in DOMAIN trustRegistries THEN {"TrustRegistry"} ELSE {})

\* the dispatch table
dispatchTable(type, certificationLevel) ==
    CASE type \in {"AUTHENTICATION_SERVICE_PROVIDER",
                   "CREDENTIAL_SERVICE_PROVIDER"} -> {"Authentication"}
      [] type = "IDENTITY_PROVIDER" -> {"VerifiedPerson"}
      [] type = "WALLET_PROVIDER" -> {"DigitalWallet"}
      [] type = "TRUST_REGISTRY" -> {"TrustRegistry"}
      [] type \in {"ISSUER", "VERIFIER", "RELYING_PARTY"} ->
             {"Privacy"} \cup (IF certificationLevel \in {"LOA3", "LOA4"}
                               THEN {"Infrastructure"} ELSE {})
      [] OTHER -> {}

\* C12: after a successful PCTFFramework.registerParticipant the new id is
\* a key of exactly the provider maps the dispatch table gives for its type
\* (Infrastructure beside Privacy exactly at LOA3 and LOA4, the level
\* changing nothing for the other types), and it stays so; an id that is
\* not in the directory is in no provider map.
C12_Dispatch ==
    /\ (Returned("PCTFFramework.registerParticipant") /\ result.success)
       => /\ result.call[2].participantId \in DOMAIN participants
          /\ kindsHolding(result.call[2].participantId) =
                 dispatchTable(result.call[2].type,
                               result.call[2].certificationLevel)
    /\ \A id \in Ids :
           kindsHolding(id) =
               IF id \in DOMAIN participants
               THEN dispatchTable(participants[id].type,
                                  participants[id].certificationLevel)
               ELSE {}

\* an ISSUER at LOA3 has been registered beside an ISSUER at LOA2: the
\* first is in the Privacy and Infrastructure maps, the second in Privacy
\* only
C12_Witness ==
    /\ Returned("PCTFFramework.registerParticipant")
    /\ result.success
    /\ result.call[2].type = "ISSUER"
    /\ result.call[2].certificationLevel = "LOA3"
    /\ kindsHolding(result.call[2].participantId) = {"Privacy", "Infrastructure"}
    /\ \E other \in DOMAIN participants :
           /\ participants[other].type = "ISSUER"
           /\ participants[other].certificationLevel = "LOA2"
           /\ kindsHolding(other) = {"Privacy"}

\* the conformance result a successful assessConformance has just returned
conformanceResultOf(envelope) == envelope.data[1]

componentNames(componentResults) ==
    [i \in 1..Len(componentResults) |-> componentResults[i].componentName]

\* C13: for a registered participant assessConformance succeeds with one
\* component result per provider map holding the id and none for the
\* others; each component is conformant iff all its assessed criteria are,
\* and overallConformance is the conjunction over the components present,
\* so a kind the participant lacks does not make it false.
C13_Aggregation ==
    Returned("assessConformance")
    => LET id == result.call[2]
       IN  id \in DOMAIN participants
           => /\ result.success
              /\ LET assessment == conformanceResultOf(result)
                     results == assessment.componentResults
                 IN  /\ Len(results) = Cardinality(kindsHolding(id))
                     /\ {results[i].componentName : i \in 1..Len(results)}
                            = kindsHolding(id)
                     /\ \A i \in 1..Len(results) :
                            /\ Len(results[i].assessedCriteria) = 3
                            /\ results[i].isConformant =
                                   (\A j \in 1..Len(results[i].assessedCriteria) :
                                        results[i].assessedCriteria[j].isConformant)
                     /\ assessment.overallConformance =
                            (\A i \in 1..Len(results) : results[i].isConformant)
                     /\ (\A i \in 1..Len(results) : results[i].isConformant)
                        => assessment.overallConformance

\* a participant with an Authentication provider only has been assessed:
\* one component result, and the overall conformance is that component's
C13_Witness ==
    /\ Returned("assessConformance")
    /\ result.success
    /\ kindsHolding(result.call[2]) = {"Authentication"}
    /\ Len(conformanceResultOf(result).componentResults) = 1
    /\ conformanceResultOf(result).componentResults[1].componentName
           = "Authentication"
    /\ conformanceResultOf(result).overallConformance
           = conformanceResultOf(result).componentResults[1].isConformant
    /\ conformanceResultOf(result).overallConformance

\* the place of a component name in the fixed order
kindIndex(componentName) ==
    CHOOSE k \in 1..Len(ProviderKinds) : ProviderKinds[k] = componentName

\* C14: the component names of every assessConformance result come in the
\* order Authentication, VerifiedPerson, Privacy, Infrastructure,
\* DigitalWallet, TrustRegistry, none twice; a participant with Privacy
\* and Infrastructure providers yields exactly [Privacy, Infrastructure].
C14_ComponentOrder ==
    (Returned("assessConformance") /\ result.success)
    => LET names == componentNames(conformanceResultOf(result).componentResults)
       IN  /\ \A i \in 1..Len(names) :
                  \E k \in 1..Len(ProviderKinds) : ProviderKinds[k] = names[i]
           /\ \A i, j \in 1..Len(names) :
                  i < j => kindIndex(names[i]) < kindIndex(names[j])
           /\ kindsHolding(result.call[2]) = {"Privacy", "Infrastructure"}
              => names = <<"Privacy", "Infrastructure">>

\* the second participant, registered after the first, holds Privacy and
\* Infrastructure providers and is assessed as [Privacy, Infrastructure]
C14_Witness ==
    /\ Returned("assessConformance")
    /\ result.success
    /\ result.call[2] = "p2"
    /\ "p1" \in DOMAIN participants
    /\ kindsHolding("p1") = {"TrustRegistry"}
    /\ componentNames(conformanceResultOf(result).componentResults)
           = <<"Privacy", "Infrastructure">>

\* C15: a PCTFFramework.registerParticipant call whose participantId is
\* already in the directory, or whose participantId, name or type is
\* missing, fails and leaves the directory and the six provider maps as
\* they were.
C15_OrchestratorRejects ==
    [][(/\ Calls("PCTFFramework.registerParticipant")
        /\ \/ result'.call[2].participantId \in DOMAIN participants
           \/ result'.call[2].participantId = ""
           \/ result'.call[2].name = ""
           \/ result'.call[2].type = "")
       => /\ ~result'.success
          /\ UNCHANGED frameworkVars]_vars

\* a second submission for a registered id, of another type and level that
\* would attach other providers, has been rejected
C15_Witness ==
    /\ Returned("PCTFFramework.registerParticipant")
    /\ ~result.success
    /\ result.message = "Participant already registered"
    /\ LET submitted == result.call[2]
           kept == participants[submitted.participantId]
       IN  /\ submitted.type # kept.type
           /\ submitted.certificationLevel # kept.certificationLevel
           /\ dispatchTable(submitted.type, submitted.certificationLevel)
                  # kindsHolding(submitted.participantId)
           /\ kindsHolding(submitted.participantId) # {}

\* C16: every failing call of a public mutating operation returns
\* success=false with an errors list that is present and names the error.
C16_EveryFailureListsErrors ==
    (result # NoResult /\ ~result.success) => result.errors # <<>>

\* C16 as amended: every failing call returns success=false and a message
\* that names the error; the errors list is present, with one line per
\* issue, when registration fails on its certifications and when the sweep
\* fails its integrity check, and absent for missing fields, a duplicate id
\* and an unknown id, in the registry and in the orchestrator alike.
C16_FailureEnvelopes ==
    [][/\ Calls("registerParticipant")
          => LET entry == result'.call[2]
             IN  /\ ~validateInput(entry)
                    => /\ ~result'.success
                       /\ result'.message = "Invalid trust registry entry data"
                       /\ result'.errors = <<>>
                 /\ (validateInput(entry)
                     /\ entry.participantId \in DOMAIN trustEntries)
                    => /\ ~result'.success
                       /\ result'.message = "Participant already registered"
                       /\ result'.errors = <<>>
                 /\ (/\ validateInput(entry)
                     /\ entry.participantId \notin DOMAIN trustEntries
                     /\ \E i \in 1..Len(entry.certifications) :
                            defective(entry.certifications[i], now))
                    => /\ ~result'.success
                       /\ result'.message = "Certification validation failed"
                       /\ Len(result'.errors) >=
                              Cardinality({i \in 1..Len(entry.certifications) :
                                  defective(entry.certifications[i], now)})
       /\ (Calls("verifyTrust") /\ result'.call[2] \notin DOMAIN trustEntries)
          => /\ ~result'.success
             /\ result'.message = "Participant not found in trust registry"
             /\ result'.errors = <<>>
       /\ (Calls("updateParticipantStatus")
           /\ result'.call[2] \notin DOMAIN trustEntries)
          => /\ ~result'.success
             /\ result'.message = "Participant not found"
             /\ result'.errors = <<>>
       /\ (Calls("executeProcess") /\ integrityBroken)
          => /\ ~result'.success
             /\ result'.message = "Registry integrity validation failed"
             /\ result'.errors # <<>>
       /\ Calls("PCTFFramework.registerParticipant")
          => LET participant == result'.call[2]
                 missing == \/ participant.participantId = ""
                            \/ participant.name = ""
                            \/ participant.type = ""
             IN  /\ missing
                    => /\ ~result'.success
                       /\ result'.message =
                              "Missing required participant information"
                       /\ result'.errors = <<>>
                 /\ (~missing /\ participant.participantId \in DOMAIN participants)
                    => /\ ~result'.success
                       /\ result'.message = "Participant already registered"
                       /\ result'.errors = <<>>
       /\ (Calls("assessConformance")
           /\ result'.call[2] \notin DOMAIN participants)
          => /\ ~result'.success
             /\ result'.message = "Participant not found"
             /\ result'.errors = <<>>
       /\ (result' # NoResult /\ ~result'.success) => result'.message # ""]_vars

\* the orchestrator has rejected a duplicate id with a message and no
\* errors list, after the registry's sweep failed with one
C16_Witness ==
    /\ Returned("PCTFFramework.registerParticipant")
    /\ ~result.success
    /\ result.message = "Participant already registered"
    /\ result.errors = <<>>
    /\ status = "FAILED"

\* C17: a successful verifyTrust sets the entry's lastVerified to the time
\* of the call, besides appending its result to the history.
C17_VerifyTouchesLastVerified ==
    [][\A id \in Ids :
          (Calls("verifyTrust") /\ result'.call[2] = id /\ result'.success)
          => /\ trustEntries'[id].lastVerified = now
             /\ getVerificationHistory(id)' =
                    Append(getVerificationHistory(id),
                           verificationResultOf(result'))]_vars

\* C19: across an executeProcess every entry keeps its status or goes from
\* TRUSTED to SUSPENDED; it goes only when its expirationDate is set and
\* earlier than the clock of the expiry pass; no status becomes TRUSTED and
\* no entry leaves SUSPENDED, REVOKED, PROVISIONAL or UNKNOWN.
C19_SweepTransitions ==
    [][Calls("executeProcess")
       => /\ DOMAIN trustEntries' = DOMAIN trustEntries
          /\ \A id \in DOMAIN trustEntries :
                 \/ trustEntries'[id].status = trustEntries[id].status
                 \/ /\ trustEntries[id].status = "TRUSTED"
                    /\ trustEntries'[id].status = "SUSPENDED"
                    /\ trustEntries[id].expirationDate # <<>>
                    /\ Before(trustEntries[id].expirationDate[1], now')]_vars

\* a sweep has demoted an entry that expired while the sweep ran: the entry
\* is SUSPENDED with a score only a TRUSTED entry is given, beside an entry
\* without expirationDate that the sweep left as it was
C19_Witness ==
    /\ Returned("executeProcess")
    /\ result.success
    /\ \E id \in DOMAIN trustEntries :
           /\ trustEntries[id].status = "SUSPENDED"
           /\ expiredAt(trustEntries[id].expirationDate, now)
           /\ trustEntries[id].trustScore > 75
    /\ \E id \in DOMAIN trustEntries :
           /\ trustEntries[id].status = "PROVISIONAL"
           /\ trustEntries[id].expirationDate = <<>>

\* C20: an entry's status becomes UNKNOWN only by a registerParticipant
\* whose entry carries UNKNOWN or an updateParticipantStatus that asks for
\* UNKNOWN; verifyTrust and executeProcess assign it to no entry, and
\* verifyTrust returns trustStatus UNKNOWN only for an entry stored as
\* UNKNOWN.
C20_UnknownOnlyFromCallers ==
    [][/\ \A id \in DOMAIN trustEntries' :
              (/\ trustEntries'[id].status = "UNKNOWN"
               /\ \/ id \notin DOMAIN trustEntries
                  \/ trustEntries[id].status # "UNKNOWN")
              => \/ /\ Calls("registerParticipant")
                    /\ result'.call[2].participantId = id
                    /\ result'.call[2].status = "UNKNOWN"
                 \/ /\ Calls("updateParticipantStatus")
                    /\ result'.call[2] = id
                    /\ result'.call[3] = "UNKNOWN"
       /\ (Calls("verifyTrust") /\ result'.success)
          => /\ trustEntries' = trustEntries
             /\ verificationResultOf(result').trustStatus = "UNKNOWN"
                => trustEntries[result'.call[2]].status = "UNKNOWN"]_vars

\* verifyTrust has found failed checks for a TRUSTED entry and reported
\* PROVISIONAL, in a store where a caller has put an UNKNOWN entry
C20_Witness ==
    /\ Returned("verifyTrust")
    /\ result.success
    /\ trustEntries[result.call[2]].status = "TRUSTED"
    /\ Len(verificationResultOf(result).verificationDetails.failed) > 0
    /\ verificationResultOf(result).trustStatus = "PROVISIONAL"
    /\ \E id \in DOMAIN trustEntries : trustEntries[id].status = "UNKNOWN"

\* C21: verifyTrust and updateParticipantStatus for a participantId that is
\* not stored return success=false and change nothing of the registry (no
\* entry, no history list); so every id that has a verification history is
\* the id of a stored entry.
C21_UnknownIdChangesNothing ==
    /\ [](DOMAIN verificationHistory \subseteq DOMAIN trustEntries)
    /\ [][((Calls("verifyTrust") \/ Calls("updateParticipantStatus"))
           /\ result'.call[2] \notin DOMAIN trustEntries)
          => /\ ~result'.success
             /\ UNCHANGED registryVars]_vars

\* updateParticipantStatus has failed for an id that is not stored, in a
\* registry whose other participant is stored and has been verified: the
\* histories are those of the stored ids
C21_Witness ==
    /\ Returned("updateParticipantStatus")
    /\ ~result.success
    /\ result.call[2] \notin DOMAIN trustEntries
    /\ DOMAIN verificationHistory = DOMAIN trustEntries
    /\ \E id \in DOMAIN verificationHistory :
           Len(verificationHistory[id]) > 0

\* the component names and conformance flags of a list of component results
namesAndFlags(componentResults) ==
    [i \in 1..Len(componentResults) |->
        <<componentResults[i].componentName, componentResults[i].isConformant>>]

\* C22: assessConformance, for a known or an unknown participantId, leaves
\* the directory and the six provider maps (and the registry) as they were;
\* for an id that is not in the directory it returns success=false with no
\* component result; for a known id it succeeds, and the component names
\* and flags it returns are those a second call right after it returns.
C22_AssessmentReadOnly ==
    [][Calls("assessConformance")
       => /\ UNCHANGED <<frameworkVars, registryVars>>
          /\ result'.success = (result'.call[2] \in DOMAIN participants)
          /\ ~result'.success => result'.data = <<>>
          /\ result'.success
             => namesAndFlags(conformanceResultOf(result').componentResults)
                = namesAndFlags(
                      componentResultsOf(result'.call[2],
                          [authentication |-> authenticationProviders',
                           identity |-> identityProviders',
                           privacy |-> privacyProviders',
                           infrastructure |-> infrastructureProviders',
                           wallet |-> walletProviders',
                           trustRegistry |-> trustRegistries'], now'))]_vars

\* a participant with Privacy and Infrastructure providers has been
\* assessed while the directory holds a second participant: both are in the
\* directory and the maps as registered
C22_Witness ==
    /\ Returned("assessConformance")
    /\ result.success
    /\ Len(conformanceResultOf(result).componentResults) = 2
    /\ DOMAIN participants = Ids
    /\ \A id \in Ids : participants[id].isActive
    /\ \A id \in Ids : kindsHolding(id) # {}

\* C23: validateEcosystem returns success=true exactly when the directory
\* holds a participant with isActive true and the identity-provider map and
\* the authentication-provider map both have a key; a directory of issuers,
\* verifiers, relying parties, wallet providers and trust registries only is
\* invalid with both interoperability issues listed; the call changes no
\* state.
C23_EcosystemValidity ==
    [][Calls("validateEcosystem")
       => /\ result'.success =
                 (/\ \E id \in DOMAIN participants : participants[id].isActive
                  /\ DOMAIN identityProviders # {}
                  /\ DOMAIN authenticationProviders # {})
          /\ (\A id \in DOMAIN participants :
                  participants[id].type \in
                      {"ISSUER", "VERIFIER", "RELYING_PARTY", "WALLET_PROVIDER",
                       "TRUST_REGISTRY"})
             => /\ ~result'.success
                /\ result'.data[1].interoperabilityIssues =
                       <<"No identity providers registered",
                         "No authentication providers registered">>
          /\ UNCHANGED <<frameworkVars, registryVars>>]_vars

\* an ecosystem of an identity provider and an authentication provider, of
\* which one is active, has been found valid
C23_Witness ==
    /\ Returned("validateEcosystem")
    /\ result.success
    /\ result.data[1].activeParticipants = 1
    /\ result.data[1].participantCount = 2
    /\ result.data[1].interoperabilityIssues = <<>>

\* the items one check has put in a list of the verification details
itemsOf(list, items) == {i \in 1..Len(list) : list[i] \in items}

\* C24: in every verifyTrust result each of the three checks (status,
\* certification, score) has put exactly one item in exactly one of passed,
\* failed and warnings, so the lists hold 3 items together and
\* criteriaChecked holds 3; warnings holds at most the item of the score
\* check; an entry that is TRUSTED with an ACTIVE unexpired certification
\* and a trustScore of at least 70 gives 3 passed and no failed.
C24_OneItemPerCheck ==
    (Returned("verifyTrust") /\ result.success)
    => LET entry == trustEntries[result.call[2]]
           details == verificationResultOf(result).verificationDetails
           statusItems == {<<"Trust status verification">>}
                          \cup {<<"Trust status is", st>> : st \in TrustStatus}
           certificationItems == {<<"Active certifications found">>,
                                  <<"No active certifications">>}
           scoreItems == {<<"Trust score meets threshold">>,
                          <<"Trust score too low">>,
                          <<"Trust score below recommended threshold">>}
           count(items) == Cardinality(itemsOf(details.passed, items))
                           + Cardinality(itemsOf(details.failed, items))
                           + Cardinality(itemsOf(details.warnings, items))
       IN  /\ count(statusItems) = 1
           /\ count(certificationItems) = 1
           /\ count(scoreItems) = 1
           /\ Len(details.passed) + Len(details.failed)
                  + Len(details.warnings) = 3
           /\ Len(details.criteriaChecked) = 3
           /\ Len(details.warnings) <= 1
           /\ \A i \in 1..Len(details.warnings) :
                  details.warnings[i] =
                      <<"Trust score below recommended threshold">>
           /\ (/\ entry.status = "TRUSTED"
               /\ hasUsableCertification(entry, now)
               /\ entry.trustScore >= 70)
              => Len(details.passed) = 3 /\ details.failed = <<>>

\* an entry that is not TRUSTED, has no usable certification and a score
\* under 50 has been verified: three failed items, nothing passed or warned
C24_Witness ==
    /\ Returned("verifyTrust")
    /\ result.success
    /\ trustEntries[result.call[2]].trustScore < 50
    /\ Len(verificationResultOf(result).verificationDetails.failed) = 3
    /\ verificationResultOf(result).verificationDetails.passed = <<>>
    /\ verificationResultOf(result).verificationDetails.warnings = <<>>
    /\ Len(verificationResultOf(result).verificationDetails.criteriaChecked) = 3

\* the six provider maps by the component name of their kind
providerMap(kind) ==
    CASE kind = "Authentication" -> authenticationProviders
      [] kind = "VerifiedPerson" -> identityProviders
      [] kind = "Privacy" -> privacyProviders
      [] kind = "Infrastructure" -> infrastructureProviders
      [] kind = "DigitalWallet" -> walletProviders
      [] kind = "TrustRegistry" -> trustRegistries

\* the one map among Authentication, VerifiedPerson, Privacy, DigitalWallet
\* and TrustRegistry that a participant type maps to
primaryKind(type) ==
    CASE type \in {"AUTHENTICATION_SERVICE_PROVIDER",
                   "CREDENTIAL_SERVICE_PROVIDER"} -> "Authentication"
      [] type = "IDENTITY_PROVIDER" -> "VerifiedPerson"
      [] type \in {"ISSUER", "VERIFIER", "RELYING_PARTY"} -> "Privacy"
      [] type = "WALLET_PROVIDER" -> "DigitalWallet"
      [] type = "TRUST_REGISTRY" -> "TrustRegistry"

\* C25: with participants of the eight types registered one call after the
\* other, every key of a provider map is a key of the directory; every id
\* of the directory is a key of exactly one of the Authentication,
\* VerifiedPerson, Privacy, DigitalWallet and TrustRegistry maps, the one of
\* its stored type; every Infrastructure key is a Privacy key; no id is in
\* more than two maps; and no step removes an id from the directory or from
\* a provider map.
C25_ProviderMaps ==
    /\ [](/\ \A k \in 1..Len(ProviderKinds) :
                 DOMAIN providerMap(ProviderKinds[k]) \subseteq DOMAIN participants
          /\ \A id \in DOMAIN participants :
                 /\ kindsHolding(id) \ {"Infrastructure"} =
                        {primaryKind(participants[id].type)}
                 /\ Cardinality(kindsHolding(id)) <= 2
          /\ DOMAIN infrastructureProviders \subseteq DOMAIN privacyProviders)
    /\ [][/\ DOMAIN participants \subseteq DOMAIN participants'
          /\ \A k \in 1..Len(ProviderKinds) :
                 DOMAIN providerMap(ProviderKinds[k])
                     \subseteq DOMAIN providerMap(ProviderKinds[k])']_vars

\* a verifier at LOA3 is in the Privacy and Infrastructure maps and a wallet
\* provider in the DigitalWallet map only, after a rejected registration
\* that would have changed the type of one of them
C25_Witness ==
    /\ Returned("PCTFFramework.registerParticipant")
    /\ ~result.success
    /\ result.call[2].participantId \in DOMAIN participants
    /\ result.call[2].type # participants[result.call[2].participantId].type
    /\ \E id \in DOMAIN participants :
           /\ participants[id].type = "VERIFIER"
           /\ kindsHolding(id) = {"Privacy", "Infrastructure"}
    /\ \E id \in DOMAIN participants :
           /\ participants[id].type = "WALLET_PROVIDER"
           /\ kindsHolding(id) = {"DigitalWallet"}

\* C26: in every state reached through registerParticipant,
\* updateParticipantStatus, verifyTrust and executeProcess every stored
\* TRUSTED entry has a trustScore of at least 70; so for a TRUSTED entry
\* the score check of verifyTrust passes (no warning, no "too low"), and
\* the result is PROVISIONAL exactly when the entry has no ACTIVE unexpired
\* certification.
C26_TrustedScoreFloor ==
    /\ \A id \in DOMAIN trustEntries :
           trustEntries[id].status = "TRUSTED"
           => trustEntries[id].trustScore >= 70
    /\ (Returned("verifyTrust") /\ result.success
        /\ trustEntries[result.call[2]].status = "TRUSTED")
       => LET entry == trustEntries[result.call[2]]
              verificationResult == verificationResultOf(result)
              details == verificationResult.verificationDetails
          IN  /\ details.warnings = <<>>
              /\ \A i \in 1..Len(details.failed) :
                     details.failed[i] = <<"No active certifications">>
              /\ \E i \in 1..Len(details.passed) :
                     details.passed[i] = <<"Trust score meets threshold">>
              /\ verificationResult.trustStatus \in {"TRUSTED", "PROVISIONAL"}
              /\ (verificationResult.trustStatus = "PROVISIONAL")
                     = ~hasUsableCertification(entry, now)

\* a TRUSTED entry at LOA1 without certifications, registered recently and
\* last verified long ago, holds the lowest score a TRUSTED entry can have
\* and has been verified: PROVISIONAL for its certifications alone
C26_Witness ==
    /\ Returned("verifyTrust")
    /\ result.success
    /\ trustEntries[result.call[2]].status = "TRUSTED"
    /\ trustEntries[result.call[2]].assuranceLevel = "LOA1"
    /\ trustEntries[result.call[2]].trustScore = 80
    /\ verificationResultOf(result).trustStatus = "PROVISIONAL"
    /\ verificationResultOf(result).verificationDetails.failed
           = << <<"No active certifications">> >>

\* C27: after every successful executeProcess each stored entry's
\* trustScore is the score function applied to the entry as it is stored
\* when the sweep ends (at an instant the sweep read the clock), so an
\* entry the sweep demoted from TRUSTED to SUSPENDED does not keep the
\* score computed for TRUSTED.
C27_ScoreMatchesStoredEntry ==
    [][(Calls("executeProcess") /\ result'.success)
       => \A id \in DOMAIN trustEntries' :
              \E t \in LaterReads(now) \cup {now'} :
                  trustEntries'[id].trustScore =
                      calculateTrustScore(trustEntries'[id], t)]_vars

\* C28: the process status starts as PENDING; every executeProcess ends
\* with status COMPLETED or FAILED, COMPLETED exactly when it returns
\* success=true; whatever the status was, executeProcess runs its integrity
\* check on the store as it is and fails exactly when the check does; and
\* no other step (registerParticipant, verifyTrust, updateParticipantStatus,
\* searchTrustRegistry) changes the status.
C28_ProcessStatus ==
    /\ status = "PENDING"
    /\ [][/\ Calls("executeProcess")
             => /\ status' \in {"COMPLETED", "FAILED"}
                /\ (status' = "COMPLETED") = result'.success
                /\ result'.success = ~integrityBroken
                /\ ~result'.success
                   => result' = validateRegistryIntegrity(
                                    <<"executeProcess">>, trustEntries,
                                    entryOrder, now)
          /\ ~Calls("executeProcess") => status' = status]_vars

\* a sweep has failed on an entry that an earlier, successful sweep demoted:
\* the status went from COMPLETED to FAILED, and the failure lists the
\* expired entry
C28_Witness ==
    /\ Returned("executeProcess")
    /\ ~result.success
    /\ status = "FAILED"
    /\ Len(result.errors) = 1
    /\ \E id \in DOMAIN trustEntries :
           /\ trustEntries[id].status = "SUSPENDED"
           /\ trustEntries[id].trustScore > 75
           /\ expiredAt(trustEntries[id].expirationDate, now)

\* C29: verifyTrust changes the status and the trustScore of no stored
\* entry and reports the trustScore that is stored, not a recomputed one;
\* a stored entry's status changes only by an updateParticipantStatus for
\* its id or by executeProcess, and its trustScore only by those two, after
\* registerParticipant has given it its first value.
C29_VerifyReadsOnly ==
    [][/\ Calls("verifyTrust")
          => /\ trustEntries' = trustEntries
             /\ result'.success
                => verificationResultOf(result').trustScore =
                       trustEntries[result'.call[2]].trustScore
       /\ \A id \in DOMAIN trustEntries' :
              IF id \notin DOMAIN trustEntries
              THEN /\ Calls("registerParticipant")
                   /\ result'.call[2].participantId = id
              ELSE (\/ trustEntries'[id].status # trustEntries[id].status
                    \/ trustEntries'[id].trustScore # trustEntries[id].trustScore)
                   => \/ /\ Calls("updateParticipantStatus")
                         /\ result'.call[2] = id
                      \/ Calls("executeProcess")]_vars

\* verifyTrust has reported the stored score of an entry whose score, if
\* computed at the time of the call, would be another
C29_Witness ==
    /\ Returned("verifyTrust")
    /\ result.success
    /\ verificationResultOf(result).trustScore =
           trustEntries[result.call[2]].trustScore
    /\ trustEntries[result.call[2]].trustScore #
           calculateTrustScore(trustEntries[result.call[2]], now)

\* the store holds an entry, or a certification of an entry, whose
\* expirationDate is earlier than now
storeHoldsExpired ==
    \E id \in DOMAIN trustEntries :
        \/ expiredAt(trustEntries[id].expirationDate, now)
        \/ \E i \in 1..Len(trustEntries[id].certifications) :
               expiredAt(trustEntries[id].certifications[i].expirationDate, now)

\* C30: no step removes an entry or changes an entry's expirationDate or
\* certifications; registerParticipant does not look at the expirationDate
\* of the entry it is given (it fails only for missing fields, a stored id
\* or a defective certification); so once the store holds an entry or
\* certification that expired before now it holds one ever after, and every
\* executeProcess from then on fails and leaves every entry, its score and
\* status included, as it was.
C30_ExpiryIsPermanent ==
    [][/\ \A id \in DOMAIN trustEntries :
              /\ id \in DOMAIN trustEntries'
              /\ trustEntries'[id].expirationDate = trustEntries[id].expirationDate
              /\ trustEntries'[id].certifications = trustEntries[id].certifications
       /\ Calls("registerParticipant")
          => LET entry == result'.call[2]
             IN  result'.success =
                     (/\ validateInput(entry)
                      /\ entry.participantId \notin DOMAIN trustEntries
                      /\ \A i \in 1..Len(entry.certifications) :
                             ~defective(entry.certifications[i], now))
       /\ storeHoldsExpired => storeHoldsExpired'
       /\ (storeHoldsExpired /\ Calls("executeProcess"))
          => /\ ~result'.success
             /\ status' = "FAILED"
             /\ trustEntries' = trustEntries]_vars

\* an entry that had expired before the registry existed, so before it was
\* registered, is stored beside a TRUSTED entry that has expired since; a
\* sweep has failed on both and the TRUSTED entry has not been demoted
C30_Witness ==
    /\ Returned("executeProcess")
    /\ ~result.success
    /\ Len(result.errors) >= 2
    /\ \E id \in DOMAIN trustEntries :
           expiredAt(trustEntries[id].expirationDate, Start)
    /\ \E id \in DOMAIN trustEntries :
           /\ trustEntries[id].status = "TRUSTED"
           /\ expiredAt(trustEntries[id].expirationDate, now)

\* the successful returns among the calls started together
succeeded(op) ==
    {i \in 1..Len(settled) : settled[i].call[1] = op /\ settled[i].success}

\* C18: of the registerParticipant calls for one participantId that are
\* started without awaiting one another at most one returns success=true,
\* and the stored record is the one it submitted; this for the registry and
\* for the orchestrator, where moreover no id is in provider maps of two
\* participant types.
C18_NoInterleavingHazard ==
    /\ \A op \in {"registerParticipant", "PCTFFramework.registerParticipant"} :
           \A i, j \in succeeded(op) :
               settled[i].call[2].participantId
                   = settled[j].call[2].participantId
               => i = j
    /\ \A i \in succeeded("registerParticipant") :
           LET entry == settled[i].call[2]
           IN  [trustEntries[entry.participantId] EXCEPT
                    !.trustScore = entry.trustScore] = entry
    /\ \A i \in succeeded("PCTFFramework.registerParticipant") :
           participants[settled[i].call[2].participantId] = settled[i].call[2]
    /\ \A id \in DOMAIN participants :
           kindsHolding(id) \subseteq
               dispatchTable(participants[id].type,
                             participants[id].certificationLevel)

====
